---------------------------- MODULE Spec2Model ----------------------------
(* Model of the zx3dsk toolkit: the +3 disk builder (zx3dsk.go), the EDSK  *)
(* writer and parser, and the extractor's read path (zx3extract).          *)
(*                                                                          *)
(* Byte buffers are kept run-length encoded.  A buffer is a sequence of     *)
(* runs [k, a, o, e], each run ending at offset e (exclusive) of the        *)
(* buffer and starting where the run before it ends:                        *)
(*   k = "c": copies of the concrete byte a (o = 0);                        *)
(*   k = "b": consecutive body bytes of host file a, the first being its    *)
(*            body byte number o.                                           *)
(* The body bytes of a host file are arbitrary and the code never inspects  *)
(* them, so they stay symbolic; every byte the code computes or tests       *)
(* (headers, directory entries, container headers, filler) is concrete.     *)
(* Buffers are always kept normalised (no empty run, no two adjacent runs   *)
(* that could be one), so two buffers are equal iff they hold equal bytes.  *)
(*                                                                          *)
(* A loop of the program is a fold over its iterations, split in halves so  *)
(* that the evaluation nests only logarithmically deep.                     *)
EXTENDS Integers, Sequences, FiniteSets, TLC

(* ---------------- program constants (zx3dsk.go:28-38) ---------------- *)
Tracks == 40
Sides == 1
SectorsPerTr == 9
SectorSize == 512
TrackSize == 4864
BlockSizeBytes == 1024
BlockSectors == BlockSizeBytes \div SectorSize
DirBlocks == 2
HeaderLen == 128
ExtentBytes == 16 * 1024
RecordBytes == 128
Filler == 229

(* ---------------- bounds of the model ---------------- *)
MaxFiles == 3

(* ---------------- generic helpers ---------------- *)
Min(a, b) == IF a < b THEN a ELSE b

RECURSIVE Pow2(_)
Pow2(n) == IF n = 0 THEN 1 ELSE 2 * Pow2(n - 1)

(* byte(x): conversion of an int to a Go byte *)
ToByte(x) == x % 256

(* ---------------- byte buffers ---------------- *)
Rep(v, n) == IF n > 0 THEN <<[k |-> "c", a |-> v, o |-> 0, e |-> n]>> ELSE <<>>
BodyBytes(f, o, n) == IF n > 0 THEN <<[k |-> "b", a |-> f, o |-> o, e |-> n]>> ELSE <<>>

(* len(b) *)
BLen(bs) == IF bs = <<>> THEN 0 ELSE bs[Len(bs)].e

(* offset of the first byte of run i *)
RunStart(bs, i) == IF i = 1 THEN 0 ELSE bs[i - 1].e

(* run s, placed right after run i of bs, continues it *)
Joins(bs, i, s) ==
    /\ bs[i].k = s.k
    /\ bs[i].a = s.a
    /\ (s.k = "b" => s.o = bs[i].o + (bs[i].e - RunStart(bs, i)))

(* x followed by sy, the runs of y moved len(x) bytes further *)
CatShifted(x, y, sy) ==
    IF Joins(x, Len(x), y[1])
    THEN [x EXCEPT ![Len(x)].e = sy[1].e] \o Tail(sy)
    ELSE x \o sy

(* append(x, y...) *)
Cat(x, y) ==
    IF x = <<>> THEN y
    ELSE IF y = <<>> THEN x
    ELSE CatShifted(x, y, [i \in DOMAIN y |-> [y[i] EXCEPT !.e = @ + BLen(x)]])

(* the runs first .. first+n-1 of bs cut to the bytes lo .. hi-1 *)
SliceRuns(bs, lo, hi, first, n) ==
    [j \in 1..n |->
       [k |-> bs[first + j - 1].k, a |-> bs[first + j - 1].a,
        o |-> IF bs[first + j - 1].k = "b"
              THEN bs[first + j - 1].o
                     + (IF lo > RunStart(bs, first + j - 1)
                        THEN lo - RunStart(bs, first + j - 1) ELSE 0)
              ELSE 0,
                e |-> Min(bs[first + j - 1].e, hi) - lo]]

SliceSel(bs, lo, hi, sel) ==
    SliceRuns(bs, lo, hi, CHOOSE i \in sel : (i - 1) \notin sel, Cardinality(sel))

(* b[lo:hi] for 0 <= lo, hi <= len(b) *)
Slice(bs, lo, hi) ==
    IF lo >= hi THEN <<>>
    ELSE SliceSel(bs, lo, hi, {i \in DOMAIN bs : bs[i].e > lo /\ RunStart(bs, i) < hi})

RECURSIVE FromLitRange(_, _, _)
FromLitRange(s, lo, hi) ==
    IF lo > hi THEN <<>>
    ELSE IF lo = hi THEN Rep(s[lo], 1)
    ELSE LET mid == (lo + hi) \div 2
         IN  Cat(FromLitRange(s, lo, mid), FromLitRange(s, mid + 1, hi))

(* a literal byte array as a buffer *)
FromLit(s) == FromLitRange(s, 1, Len(s))

(* b[i], 0-based; a body byte reads as the record [f, o], never as a number *)
ByteAt(bs, i) ==
    LET j == CHOOSE j \in DOMAIN bs : RunStart(bs, j) <= i /\ i < bs[j].e
    IN  IF bs[j].k = "c" THEN bs[j].a
        ELSE [f |-> bs[j].a, o |-> bs[j].o + (i - RunStart(bs, j))]

RECURSIVE ExpandRuns(_, _, _)
(* the bytes of the runs lo .. hi of a buffer *)
ExpandRuns(bs, lo, hi) ==
    IF lo > hi THEN <<>>
    ELSE IF lo = hi
         THEN [i \in 1..(bs[lo].e - RunStart(bs, lo)) |->
                 IF bs[lo].k = "c" THEN bs[lo].a
                 ELSE [f |-> bs[lo].a, o |-> bs[lo].o + i - 1]]
    ELSE LET mid == (lo + hi) \div 2
         IN  ExpandRuns(bs, lo, mid) \o ExpandRuns(bs, mid + 1, hi)

Expand(s) == ExpandRuns(s, 1, Len(s))

(* the bytes lo .. hi-1 of a buffer as a literal array *)
ToLit(bs, lo, hi) == Expand(Slice(bs, lo, hi))

(* copy(dst[:len(src)], src) for len(src) <= len(dst) *)
CopyInto(dst, src) == Cat(src, Slice(dst, BLen(src), BLen(dst)))

(* ---------------- strings as arrays of ASCII codes ---------------- *)
Space == 32
Dot == 46
At == 64

IsUpperAZ(c) == c >= 65 /\ c <= 90
IsDigit(c) == c >= 48 /\ c <= 57

(* strings.ToUpper / strings.ToLower on ASCII strings *)
ToUpper(s) == [i \in 1..Len(s) |-> IF s[i] >= 97 /\ s[i] <= 122 THEN s[i] - 32 ELSE s[i]]
ToLower(s) == [i \in 1..Len(s) |-> IF IsUpperAZ(s[i]) THEN s[i] + 32 ELSE s[i]]

(* strings.LastIndex(s, string(c)): 0-based, -1 when absent *)
LastIndex(s, c) ==
    IF \E i \in DOMAIN s : s[i] = c
    THEN (CHOOSE i \in DOMAIN s : s[i] = c /\ \A j \in DOMAIN s : s[j] = c => j <= i) - 1
    ELSE -1

(* s[lo:hi], 0-based half-open *)
Sub(s, lo, hi) == SubSeq(s, lo + 1, hi)

RECURSIVE TrimRight(_)
(* strings.TrimRight(s, " ") *)
TrimRight(s) ==
    IF s # <<>> /\ s[Len(s)] = Space THEN TrimRight(Sub(s, 0, Len(s) - 1)) ELSE s

(* fmt.Sprintf("%-Ns", s): pad with spaces to width w, never truncates *)
PadRight(s, w) ==
    IF Len(s) >= w THEN s ELSE s \o [i \in 1..(w - Len(s)) |-> Space]

(* Go's < on strings: bytewise lexicographic *)
StrLess(a, b) ==
    \E i \in 1..Len(b) :
        /\ \A j \in 1..(i - 1) : j <= Len(a) /\ a[j] = b[j]
        /\ (i > Len(a) \/ a[i] < b[i])

(* ---------------- 8.3 helpers (zx3dsk.go:52-71) ---------------- *)
(* the punctuation kept by filt: - _ $ ~ ! # % & ( ) @ ^ { } ' *)
KeptPunct == {45, 95, 36, 126, 33, 35, 37, 38, 40, 41, 64, 94, 123, 125, 39}

KeepChar(c) == IsUpperAZ(c) \/ IsDigit(c) \/ c \in KeptPunct

RECURSIVE filt(_)
filt(s) ==
    IF s = <<>> THEN <<>>
    ELSE IF KeepChar(s[1]) THEN <<s[1]>> \o filt(Tail(s)) ELSE filt(Tail(s))

NONAME == <<78, 79, 78, 65, 77, 69>>

to83(base) ==
    LET name == ToUpper(base)
        i == LastIndex(name, Dot)
        fn0 == filt(IF i >= 0 THEN Sub(name, 0, i) ELSE name)
        ext0 == filt(IF i >= 0 THEN Sub(name, i + 1, Len(name)) ELSE <<>>)
        fn1 == IF Len(fn0) = 0 THEN NONAME ELSE fn0
        fn == IF Len(fn1) > 8 THEN Sub(fn1, 0, 8) ELSE fn1
        ext == IF Len(ext0) > 3 THEN Sub(ext0, 0, 3) ELSE ext0
    IN  PadRight(fn, 8) \o PadRight(ext, 3)

(* ---------------- +3DOS header (zx3dsk.go:74-96) ---------------- *)
le32(x) == <<ToByte(x), ToByte(x \div 256), ToByte(x \div 65536), ToByte(x \div 16777216)>>
le16(x) == <<ToByte(x), ToByte(x \div 256)>>

PLUS3DOS == <<80, 76, 85, 83, 51, 68, 79, 83>>

RECURSIVE SumRange(_, _, _)
SumRange(h, lo, hi) ==
    IF lo > hi THEN 0
    ELSE IF lo = hi THEN h[lo] % 256
    ELSE LET mid == (lo + hi) \div 2
         IN  (SumRange(h, lo, mid) + SumRange(h, mid + 1, hi)) % 256

(* lines 92-93: the sum of the first n bytes of h, masked to 8 bits *)
SumBytes(h, n) == SumRange(h, 1, n)

(* the header with its checksum byte still zero *)
HeaderFields(bodyLen, typ, p1, p2) ==
    LET t == le32(bodyLen + HeaderLen)
        bl == le16(bodyLen)
        p1le == le16(p1)
        p2le == le16(p2)
    IN  PLUS3DOS \o <<26, 1, 0>> \o t \o <<typ>> \o bl \o p1le \o p2le
          \o [i \in 1..106 |-> 0]

(* a header whose checksum is taken before the lengths are filled in *)
plus3HeaderEarlySum(bodyLen, typ, p1, p2) ==
    [HeaderFields(bodyLen, typ, p1, p2) EXCEPT ![128] = SumBytes(HeaderFields(0, typ, p1, p2), 127)]

(* plus3Header(body, typ, p1, p2): only len(body) is used *)
plus3Header(bodyLen, typ, p1, p2) ==
    LET h == HeaderFields(bodyLen, typ, p1, p2)
    IN  [h EXCEPT ![128] = SumBytes(h, 127)]

(* ---------------- header choice (zx3dsk.go:98-125) ---------------- *)
RECURSIVE DigitsValue(_, _)
DigitsValue(s, n) == IF n = 0 THEN 0 ELSE DigitsValue(s, n - 1) * 10 + (s[n] - 48)

(* strconv.Atoi: optional sign, then one or more decimal digits *)
Atoi(s) ==
    LET signed == s # <<>> /\ s[1] \in {43, 45}
        d == IF signed THEN Tail(s) ELSE s
        ok == d # <<>> /\ \A i \in 1..Len(d) : IsDigit(d[i])
        v == IF ok THEN DigitsValue(d, Len(d)) ELSE 0
    IN  [ok |-> ok, n |-> IF signed /\ s[1] = 45 THEN 0 - v ELSE v]

(* an override that also lets 65536 through *)
parseAtSuffixInclusive(base) ==
    LET i == LastIndex(base, At)
    IN  IF i >= 0 /\ i < Len(base) - 1
        THEN LET num0 == Sub(base, i + 1, Len(base))
                 j == LastIndex(num0, Dot)
                 num == IF j >= 0 THEN Sub(num0, 0, j) ELSE num0
                 r == Atoi(num)
             IN  IF r.ok /\ r.n > 0 /\ r.n <= 65536 THEN r.n ELSE 0
        ELSE 0

parseAtSuffix(base) ==
    LET i == LastIndex(base, At)
    IN  IF i >= 0 /\ i < Len(base) - 1
        THEN LET num0 == Sub(base, i + 1, Len(base))
                 j == LastIndex(num0, Dot)
                 num == IF j >= 0 THEN Sub(num0, 0, j) ELSE num0
                 r == Atoi(num)
             IN  IF r.ok /\ r.n > 0 /\ r.n < 65536 THEN r.n ELSE 0
        ELSE 0

(* filepath.Ext: the suffix starting at the last dot, empty without a dot *)
FileExt(base) ==
    LET i == LastIndex(base, Dot)
    IN  IF i >= 0 THEN Sub(base, i, Len(base)) ELSE <<>>

ExtSCR == <<46, 83, 67, 82>>
ExtBAS == <<46, 66, 65, 83>>

chooseHeader(base) ==
    LET ext == ToUpper(FileExt(base))
        override == parseAtSuffix(base)
        def == IF ext = ExtSCR THEN [typ |-> 3, p1 |-> 16384, p2 |-> 0]
               ELSE IF ext = ExtBAS THEN [typ |-> 0, p1 |-> 32768, p2 |-> 0]
               ELSE [typ |-> 3, p1 |-> 32768, p2 |-> 0]
    IN  IF override # 0 THEN [def EXCEPT !.p1 = override] ELSE def

(* ---------------- directory entry (zx3dsk.go:312-325) ---------------- *)
(* block numbers counted from behind the directory blocks *)
makeDirEntryRelative(name83, extent, rc, blocks) ==
    <<0>> \o Sub(PadRight(ToUpper(name83), 11), 0, 11)
      \o <<extent % 32, (extent \div 32) % 8, 0, rc>>
      \o [i \in 1..16 |-> IF i <= Len(blocks) THEN ToByte(blocks[i] - DirBlocks) ELSE 0]

makeDirEntry(name83, extent, rc, blocks) ==
    LET fn == PadRight(ToUpper(name83), 11)
    IN  <<0>> \o Sub(fn, 0, 11)
          \o <<extent % 32, (extent \div 32) % 8, 0, rc>>
          \o [i \in 1..16 |-> IF i <= Len(blocks) THEN ToByte(blocks[i]) ELSE 0]

(* ---------------- layout (zx3dsk.go:219-269) ---------------- *)
dirSectorCount == DirBlocks * BlockSectors
maxDir == (DirBlocks * BlockSizeBytes) \div 32
totalDataSectors == (Tracks - 1) * SectorsPerTr
totalBlocks == totalDataSectors \div BlockSectors

RECURSIVE sectorWrap(_, _)
sectorWrap(tr, se) ==
    IF se > SectorsPerTr THEN sectorWrap(tr + 1, se - SectorsPerTr) ELSE <<tr, se>>

sectorAfter(tr, se, n) == sectorWrap(tr, se + n)

DataStartTrack == 1

(* a mapping that counts file blocks from the end of the directory *)
blockToCHSRelative(block) ==
    IF block < 0 \/ block >= totalBlocks THEN [err |-> TRUE, chs |-> <<>>]
    ELSE LET first == sectorAfter(DataStartTrack, 1, (block + DirBlocks) * BlockSectors)
             second == sectorAfter(first[1], first[2], 1)
         IN  [err |-> FALSE,
              chs |-> << [Track |-> ToByte(first[1]), Side |-> 0, Sect |-> ToByte(first[2])],
                         [Track |-> ToByte(second[1]), Side |-> 0, Sect |-> ToByte(second[2])] >>]

(* blockToCHS(block): the block's 2 sectors, or err *)
blockToCHS(block) ==
    IF block < 0 \/ block >= totalBlocks THEN [err |-> TRUE, chs |-> <<>>]
    ELSE LET first == sectorAfter(DataStartTrack, 1, block * BlockSectors)
             second == sectorAfter(first[1], first[2], 1)
         IN  [err |-> FALSE,
              chs |-> << [Track |-> ToByte(first[1]), Side |-> 0, Sect |-> ToByte(first[2])],
                         [Track |-> ToByte(second[1]), Side |-> 0, Sect |-> ToByte(second[2])] >>]

RECURSIVE writeChunks(_, _, _, _, _)
(* the loop over chs in writeBlock *)
writeChunks(secs, chs, i, data, off) ==
    IF i > Len(chs) THEN secs
    ELSE LET c == chs[i]
             chunk == IF off + SectorSize > BLen(data) THEN BLen(data) - off ELSE SectorSize
         IN  IF chunk > 0
             THEN writeChunks(
                    [secs EXCEPT ![c.Track][ToByte(c.Sect - 1)] =
                                     CopyInto(@, Slice(data, off, off + chunk))],
                    chs, i + 1, data, off + chunk)
             ELSE writeChunks(secs, chs, i + 1, data, off)

(* writeBlock(block, data) on the sectors secs *)
writeBlock(secs, block, data) ==
    LET m == blockToCHS(block)
    IN  IF m.err THEN [err |-> TRUE, secs |-> secs]
        ELSE [err |-> FALSE, secs |-> writeChunks(secs, m.chs, 1, data, 0)]

(* putDir(idx, e) on the directory buffer, kept as 64 entries of 32 bytes *)
putDir(d, idx, e) == [d EXCEPT ![idx] = e]

(* an alloc that takes the blocks before it finds them missing *)
allocEager(nb, n) ==
    IF nb + n > totalBlocks THEN [err |-> TRUE, blocks |-> <<>>, next |-> nb + n]
    ELSE [err |-> FALSE, blocks |-> [i \in 1..n |-> nb + i - 1], next |-> nb + n]

(* alloc(n) with nextBlock = nb *)
alloc(nb, n) ==
    IF nb + n > totalBlocks THEN [err |-> TRUE, blocks |-> <<>>, next |-> nb]
    ELSE [err |-> FALSE, blocks |-> [i \in 1..n |-> nb + i - 1], next |-> nb + n]

(* bytes of this extent, blocks it needs and its record count (lines 283-296) *)
bytesThisOf(total, pos) == Min(total - pos, ExtentBytes)
needOf(bytesThis) == (bytesThis + BlockSizeBytes - 1) \div BlockSizeBytes
rcOfFloor(bytesThis) == ToByte(bytesThis \div RecordBytes)
rcOf(bytesThis) == ToByte((bytesThis + 127) \div RecordBytes)

(* one iteration of the loop over the allocated blocks (lines 289-295); *)
(* once start >= end it stays so, and an error is returned at once      *)
writeBlocksStep(w, blocks, i, data, pos, total) ==
    IF w.err THEN w
    ELSE IF pos + (i - 1) * BlockSizeBytes >= Min(pos + i * BlockSizeBytes, total) THEN w
    ELSE writeBlock(w.secs, blocks[i],
                    Slice(data, pos + (i - 1) * BlockSizeBytes,
                          Min(pos + i * BlockSizeBytes, total)))

RECURSIVE writeBlocksRange(_, _, _, _, _, _, _)
writeBlocksRange(w, blocks, lo, hi, data, pos, total) ==
    IF w.err \/ lo > hi THEN w
    ELSE IF lo = hi THEN writeBlocksStep(w, blocks, lo, data, pos, total)
    ELSE writeBlocksRange(
           writeBlocksRange(w, blocks, lo, (lo + hi) \div 2, data, pos, total),
           blocks, (lo + hi) \div 2 + 1, hi, data, pos, total)

(* the loop over the allocated blocks (lines 289-295) *)
writeBlocks(secs, blocks, data, pos, total) ==
    writeBlocksRange([err |-> FALSE, secs |-> secs], blocks, 1, Len(blocks), data, pos, total)

(* putDir(idx, e): copy(dir[idx*32:(idx+1)*32], e); slicing past the 2 KiB *)
(* buffer is a run-time panic                                              *)
putDirPanics(idx) == (idx + 1) * 32 > DirBlocks * BlockSizeBytes

(* ---------------- EDSK writer (zx3dsk.go:128-166) ---------------- *)
MagicExtended ==
    <<69, 88, 84, 69, 78, 68, 69, 68, 32, 67, 80, 67, 32, 68, 83, 75, 32,
      70, 105, 108, 101, 13, 10, 68, 105, 115, 107, 45, 73, 110, 102, 111, 13, 10>>
MagicStandard ==
    <<77, 86, 32, 45, 32, 67, 80, 67, 69, 77, 85, 32, 68, 105, 115, 107, 45,
      70, 105, 108, 101, 13, 10, 68, 105, 115, 107, 45, 73, 110, 102, 111, 13, 10>>
Creator == <<122, 120, 51, 100, 115, 107, 43, 51, 32, 102, 105, 120, 50>>
MagicTrack == <<84, 114, 97, 99, 107, 45, 73, 110, 102, 111, 13, 10>>

(* lines 129-136: the 256-byte disk header; o is the 0-based offset *)
diskHeader ==
    [i \in 1..256 |->
       LET o == i - 1
       IN  IF o < Len(MagicExtended) THEN MagicExtended[o + 1]
           ELSE IF o >= 34 /\ o < 34 + Len(Creator) THEN Creator[o - 33]
           ELSE IF o = 48 THEN ToByte(Tracks)
           ELSE IF o = 49 THEN ToByte(Sides)
           ELSE IF o >= 52 /\ o - 52 < Tracks * Sides THEN ToByte(TrackSize \div 256)
           ELSE 0]

(* lines 140-159: the 256-byte track header of track tr *)
trackHeader(tr) ==
    [i \in 1..256 |->
       LET o == i - 1
           s == (o - 24) \div 8
           f == (o - 24) % 8
       IN  IF o < Len(MagicTrack) THEN MagicTrack[o + 1]
           ELSE IF o = 16 THEN ToByte(tr)
           ELSE IF o = 20 THEN 2
           ELSE IF o = 21 THEN ToByte(SectorsPerTr)
           ELSE IF o = 22 THEN 82
           ELSE IF o = 23 THEN 229
           ELSE IF o >= 24 /\ s < SectorsPerTr
                THEN (IF f = 0 THEN ToByte(tr)
                      ELSE IF f = 2 THEN ToByte(s + 1)
                      ELSE IF f = 3 THEN 2
                      ELSE IF f = 7 THEN 2
                      ELSE 0)
           ELSE 0]

(* the headers do not depend on the disk: each is built once *)
diskHeaderBytes == FromLit(diskHeader)
trackHeaderBytes == [tr \in 0..(Tracks - 1) |-> FromLit(trackHeader(tr))]

(* writeEDSK(w, disk): the buffers written to w, in order: the disk  *)
(* header, then per track its header and its sectors                  *)
writeEDSK(secs) ==
    [i \in 1..(1 + Tracks * (1 + SectorsPerTr)) |->
       IF i = 1 THEN diskHeaderBytes
       ELSE IF (i - 2) % (1 + SectorsPerTr) = 0
            THEN trackHeaderBytes[(i - 2) \div (1 + SectorsPerTr)]
       ELSE secs[(i - 2) \div (1 + SectorsPerTr)][((i - 2) % (1 + SectorsPerTr)) - 1]]

(* ---------------- EDSK parser (zx3dsk.go:387-461) ---------------- *)
(* A file is the sequence of the buffers written to it; a reader is at   *)
(* byte o of buffer c.                                                   *)
RECURSIVE readFrom(_, _, _, _, _)
readFrom(f, c, o, n, acc) ==
    IF n = 0 THEN [err |-> FALSE, buf |-> acc, c |-> c, o |-> o]
    ELSE IF c > Len(f) THEN [err |-> TRUE, buf |-> acc, c |-> c, o |-> o]
    ELSE LET avail == BLen(f[c]) - o
             take == Min(avail, n)
         IN  readFrom(f, IF take = avail THEN c + 1 ELSE c,
                      IF take = avail THEN 0 ELSE o + take,
                      n - take, Cat(acc, Slice(f[c], o, o + take)))

(* readExactly(r, n) with the reader at rd *)
readExactly(f, rd, n) == readFrom(f, rd.c, rd.o, n, <<>>)

HasPrefix(b, p) == BLen(b) >= Len(p) /\ ToLit(b, 0, Len(p)) = p

(* binary.LittleEndian.Uint16 of two bytes *)
Uint16(lo, hi) == lo + 256 * hi

(* 128 << N in a 64-bit int *)
Shl128(n) ==
    IF n <= 55 THEN 128 * Pow2(n)
    ELSE IF n = 56 THEN 0 - Pow2(63)
    ELSE 0

(* sector-info records read one byte early: R from the H byte *)
secHeadersEarly(th, secCount) ==
    [i \in 1..secCount |->
       LET off == 24 + (i - 1) * 8
       IN  [C |-> th[off], H |-> th[off + 1], R |-> th[off + 2], N |-> th[off + 4],
            ST1 |-> th[off + 5], ST2 |-> th[off + 6],
            DataLen |-> Uint16(th[off + 7], th[off + 8])]]

(* lines 434-441: the sector-info records of a track header *)
secHeaders(th, secCount) ==
    [i \in 1..secCount |->
       LET off == 24 + (i - 1) * 8
       IN  [C |-> th[off + 1], H |-> th[off + 2], R |-> th[off + 3], N |-> th[off + 4],
            ST1 |-> th[off + 5], ST2 |-> th[off + 6],
            DataLen |-> Uint16(th[off + 7], th[off + 8])]]

NoTrack == [Sectors |-> <<>>, ByID |-> <<>>]

(* trk.ByID[R] = &trk.Sectors[i]: the index of the sector, 0 for nil *)
ByIDGet(trk, r) == IF r \in DOMAIN trk.ByID THEN trk.ByID[r] ELSE 0

(* the payload length a sector-info record asks for (line 445) *)
wantOf(h) == IF h.DataLen = 0 THEN Shl128(h.N) ELSE h.DataLen

(* lines 449-450 *)
addSector(trk, i, h, payload) ==
    [Sectors |-> Append(trk.Sectors, [R |-> h.R, Data |-> payload]),
     ByID |-> [k \in DOMAIN trk.ByID \cup {h.R} |-> IF k = h.R THEN i ELSE trk.ByID[k]]]

(* lines 444-451 for sector i; an error ends the loop *)
readSectorsStep(f, p, headers, i) ==
    IF p.err # "" THEN p
    ELSE IF wantOf(headers[i]) < 0 THEN [p EXCEPT !.err = "bad length"]
    ELSE LET r == readExactly(f, p.rd, wantOf(headers[i]))
         IN  IF r.err THEN [p EXCEPT !.err = "read"]
             ELSE [err |-> "", rd |-> [c |-> r.c, o |-> r.o],
                   trk |-> addSector(p.trk, i, headers[i], r.buf),
                   read |-> p.read + wantOf(headers[i])]

RECURSIVE readSectorsRange(_, _, _, _, _)
readSectorsRange(f, p, headers, lo, hi) ==
    IF p.err # "" \/ lo > hi THEN p
    ELSE IF lo = hi THEN readSectorsStep(f, p, headers, lo)
    ELSE readSectorsRange(f, readSectorsRange(f, p, headers, lo, (lo + hi) \div 2),
                          headers, (lo + hi) \div 2 + 1, hi)

(* lines 444-451 *)
readSectors(f, rd, headers) ==
    readSectorsRange(f, [err |-> "", rd |-> rd, trk |-> NoTrack, read |-> 256],
                     headers, 1, Len(headers))

(* line 453-454: the padding up to the declared track size; its read *)
(* error is dropped                                                  *)
skipPadding(f, size, p) ==
    IF p.err = "" /\ size - p.read > 0
    THEN [err |-> p.err, rd |-> (LET q == readExactly(f, p.rd, size - p.read)
                                 IN  [c |-> q.c, o |-> q.o]), trk |-> p.trk]
    ELSE [err |-> p.err, rd |-> p.rd, trk |-> p.trk]

(* lines 431-454 for the track header th, the reader at rd behind it; a *)
(* sector-info index past the 256 bytes is a run-time panic             *)
readTrackBody(f, rd, size, th) ==
    IF th[22] <= 0 THEN [err |-> "bad sector count", rd |-> rd, trk |-> NoTrack]
    ELSE IF 24 + th[22] * 8 > 256 THEN [err |-> "panic", rd |-> rd, trk |-> NoTrack]
    ELSE skipPadding(f, size, readSectors(f, rd, secHeaders(th, th[22])))

(* lines 429-454: one present track *)
readTrack(f, rd, size) ==
    LET r == readExactly(f, rd, 256)
    IN  IF r.err THEN [err |-> "read", rd |-> rd, trk |-> NoTrack]
        ELSE IF ~HasPrefix(r.buf, MagicTrack)
             THEN [err |-> "missing Track-Info header", rd |-> rd, trk |-> NoTrack]
        ELSE readTrackBody(f, [c |-> r.c, o |-> r.o], size, ToLit(r.buf, 0, 256))

readTracksRead(st, t, r) ==
    IF r.err # "" THEN [st EXCEPT !.err = r.err]
    ELSE [err |-> "", rd |-> r.rd,
          Tracks |-> IF t < Len(st.Tracks) THEN [st.Tracks EXCEPT ![t + 1] = r.trk]
                     ELSE st.Tracks]

(* lines 424-457 for track t; an error ends the loop *)
readTracksStep(f, st, ts, t) ==
    IF st.err # "" THEN st
    ELSE IF ts[t + 1] = 0 THEN st
    ELSE readTracksRead(st, t, readTrack(f, st.rd, ts[t + 1]))

RECURSIVE readTracksRange(_, _, _, _, _)
readTracksRange(f, st, ts, lo, hi) ==
    IF st.err # "" \/ lo > hi THEN st
    ELSE IF lo = hi THEN readTracksStep(f, st, ts, lo)
    ELSE readTracksRange(f, readTracksRange(f, st, ts, lo, (lo + hi) \div 2),
                         ts, (lo + hi) \div 2 + 1, hi)

(* lines 423-458 *)
readTracks(f, rd, ts, trks) ==
    readTracksRange(f, [err |-> "", rd |-> rd, Tracks |-> trks], ts, 0, Len(ts) - 1)

NoDisk == [kind |-> "unknown", tracks |-> 0, sides |-> 0, trackSize |-> <<>>, Tracks |-> <<>>]

(* line 460: the disk, or the error of the track loop *)
parseResult(kind, tracks, sides, ts, p) ==
    [err |-> p.err,
     d |-> IF p.err # "" THEN NoDisk
           ELSE [kind |-> kind, tracks |-> tracks, sides |-> sides,
                 trackSize |-> ts, Tracks |-> p.Tracks]]

(* lines 397-460 for the disk header hdr, the reader at rd behind it *)
parseHeader(f, rd, hdr, kind) ==
    IF kind = "unknown" THEN [err |-> "not a DSK", d |-> NoDisk]
    ELSE IF hdr[49] <= 0 \/ hdr[50] <= 0 THEN [err |-> "bad tracks/sides", d |-> NoDisk]
    ELSE IF kind = "extended" /\ 52 + hdr[49] * hdr[50] > 256
         THEN [err |-> "invalid track size table", d |-> NoDisk]
    ELSE LET ts == [i \in 1..(hdr[49] * hdr[50]) |->
                      IF kind = "extended" THEN hdr[52 + i] * 256
                      ELSE IF Uint16(hdr[51], hdr[52]) = 0 THEN 4864
                      ELSE Uint16(hdr[51], hdr[52])]
         IN  parseResult(kind, hdr[49], hdr[50], ts,
                         readTracks(f, rd, ts, [i \in 1..hdr[49] |-> NoTrack]))

(* parseDSK on the file f: err = "" and the disk, or the error *)
parseDSK(f) ==
    LET r == readExactly(f, [c |-> 1, o |-> 0], 256)
    IN  IF r.err THEN [err |-> "read", d |-> NoDisk]
        ELSE parseHeader(f, [c |-> r.c, o |-> r.o], ToLit(r.buf, 0, 256),
                         IF HasPrefix(r.buf, MagicExtended) THEN "extended"
                         ELSE IF HasPrefix(r.buf, MagicStandard) THEN "standard"
                         ELSE "unknown")

(* ---------------- +3 read helpers (zx3dsk.go:464-564) ---------------- *)
(* the sector with record ID r of track tr, or nil *)
sectorByID(d, tr, r) ==
    LET i == ByIDGet(d.Tracks[tr + 1], r)
    IN  IF i = 0 THEN [nil |-> TRUE, Data |-> <<>>]
        ELSE [nil |-> FALSE, Data |-> d.Tracks[tr + 1].Sectors[i].Data]

specT0S1(d) ==
    IF Len(d.Tracks) = 0 THEN [nil |-> TRUE, b |-> <<>>]
    ELSE IF sectorByID(d, 0, 1).nil \/ BLen(sectorByID(d, 0, 1).Data) < 16
         THEN [nil |-> TRUE, b |-> <<>>]
    ELSE [nil |-> FALSE, b |-> ToLit(sectorByID(d, 0, 1).Data, 0, 16)]

looksPlus3Spec(sp) ==
    /\ ~sp.nil
    /\ Len(sp.b) >= 16
    /\ sp.b[1] = 0
    /\ (sp.b[2] = 0 \/ sp.b[2] = 1)
    /\ sp.b[3] >= 40
    /\ sp.b[4] >= 9
    /\ sp.b[5] = 2
    /\ sp.b[7] = 3
    /\ sp.b[8] = 2

(* dirSectors(d): sectors R1..R4 of track 1, each of 512 bytes *)
dirSectors(d) ==
    IF Len(d.Tracks) < 2 THEN [err |-> "no track 1", secs |-> <<>>]
    ELSE LET sec(i) == sectorByID(d, 1, i)
         IN  IF \E i \in 1..4 : sec(i).nil THEN [err |-> "missing directory", secs |-> <<>>]
             ELSE IF \E i \in 1..4 : BLen(sec(i).Data) # 512
                  THEN [err |-> "directory len", secs |-> <<>>]
             ELSE [err |-> "", secs |-> [i \in 1..4 |-> sec(i).Data]]

(* the directory entry in the 32 bytes e *)
dirEntryOf(e) ==
    [User |-> e[1], Name |-> TrimRight(Sub(e, 1, 9)), Ext |-> TrimRight(Sub(e, 9, 12)),
     EX |-> e[13], S1 |-> e[14], S2 |-> e[15], RC |-> e[16], Blocks |-> Sub(e, 16, 32)]

(* lines 489-496 for the 32 bytes e of one slot *)
parseDirSlot(e) == IF e[1] = 229 THEN <<>> ELSE <<dirEntryOf(e)>>

RECURSIVE parseDirRange(_, _, _)
(* the entries of the slots lo .. hi, counted from 0 over all sectors *)
parseDirRange(secs, lo, hi) ==
    IF lo > hi THEN <<>>
    ELSE IF lo = hi
         THEN parseDirSlot(ToLit(secs[(lo \div 16) + 1], (lo % 16) * 32, (lo % 16) * 32 + 32))
    ELSE parseDirRange(secs, lo, (lo + hi) \div 2)
           \o parseDirRange(secs, (lo + hi) \div 2 + 1, hi)

(* parseDir(secs): the entries whose user byte is not 0xE5, in order *)
parseDir(secs) == parseDirRange(secs, 0, Len(secs) * 16 - 1)

(* ---------------- aggregate (zx3dsk.go:501-536) ---------------- *)
fileKey(e) == <<e.User, e.Name, e.Ext>>

KeyLess(x, y) ==
    \/ x[1] < y[1]
    \/ (x[1] = y[1] /\ StrLess(x[2], y[2]))
    \/ (x[1] = y[1] /\ x[2] = y[2] /\ StrLess(x[3], y[3]))

extentKey(e) == [EX |-> e.EX, S1 |-> e.S1]

(* (S1 << 5) | (EX & 0x1F) *)
extentNum(e) == e.S1 * 32 + (e.EX % 32)

(* the entries of one file that the extent sort may exchange *)
tiedEntries(entries) ==
    {i \in DOMAIN entries : \E j \in DOMAIN entries :
        j # i /\ fileKey(entries[j]) = fileKey(entries[i])
              /\ extentNum(entries[j]) = extentNum(entries[i])}

extentTieBreaks(entries) ==
    {r \in [tiedEntries(entries) -> 1..Cardinality(tiedEntries(entries))] :
       \A i, j \in tiedEntries(entries) : i # j => r[i] # r[j]}

(* lines 518-527: the map, the order and the byte total of a sorted list *)
aggregateList(k, list) ==
    [User |-> k[1], Name |-> k[2], Ext |-> k[3],
     Extents |-> [kx \in {extentKey(list[p]) : p \in DOMAIN list} |->
                    list[CHOOSE p \in DOMAIN list :
                           /\ extentKey(list[p]) = kx
                           /\ \A q \in DOMAIN list : extentKey(list[q]) = kx => q <= p]],
     Order |-> [p \in DOMAIN list |-> extentKey(list[p])],
     TotalBytes |-> LET sumRC[p \in 0..Len(list)] ==
                            IF p = 0 THEN 0 ELSE sumRC[p - 1] + list[p].RC * 128
                    IN  sumRC[Len(list)]]

(* the number of entries of the group sorted before entry i *)
extentsBefore(entries, members, r, i) ==
    Cardinality({j \in members :
                   \/ extentNum(entries[j]) < extentNum(entries[i])
                   \/ (j # i /\ extentNum(entries[j]) = extentNum(entries[i])
                             /\ r[j] < r[i])})

(* lines 512-517: the entries of one group in the order before gives *)
sortedList(entries, members, before) ==
    [p \in 1..Cardinality(members) |-> entries[CHOOSE i \in members : before[i] = p - 1]]

(* lines 511-528 for the entries with key k, ties of the sort broken by r *)
aggregateOne(entries, k, r, members) ==
    aggregateList(k, sortedList(entries, members,
                                [i \in members |-> extentsBefore(entries, members, r, i)]))

(* lines 530-535: the groups in the order rank gives *)
aggregateRanked(entries, r, keys, rank) ==
    [p \in 1..Cardinality(keys) |->
       LET k == CHOOSE m \in keys : rank[m] = p - 1
       IN  aggregateOne(entries, k, r, {i \in DOMAIN entries : fileKey(entries[i]) = k})]

(* aggregate(entries): the files in (User, Name, Ext) order *)
aggregate(entries, r) ==
    LET keys == {fileKey(entries[i]) : i \in DOMAIN entries}
    IN  aggregateRanked(entries, r, keys,
                        [k \in keys |-> Cardinality({m \in keys : KeyLess(m, k)})])

(* ---------------- getBlock (zx3dsk.go:540-564) ---------------- *)
RECURSIVE advanceSectors(_, _, _)
(* lines 546-550: se++, wrapping 9 -> 1 with tr++, advance times; nine *)
(* iterations in a row come back to the same se one track further     *)
advanceSectors(tr, se, advance) ==
    IF advance >= 9 THEN advanceSectors(tr + 1, se, advance - 9)
    ELSE IF advance > 0
         THEN (IF se + 1 > 9 THEN advanceSectors(tr + 1, 1, advance - 1)
               ELSE advanceSectors(tr, se + 1, advance - 1))
    ELSE <<tr, se>>

RECURSIVE readSectorPair(_, _, _, _, _)
(* lines 553-562 *)
readSectorPair(d, tr, se, i, out) ==
    IF i >= 2 THEN [err |-> "", data |-> out]
    ELSE IF tr >= Len(d.Tracks) THEN [err |-> "block OOR", data |-> <<>>]
    ELSE IF sectorByID(d, tr, se).nil THEN [err |-> "missing sector", data |-> <<>>]
    ELSE IF BLen(sectorByID(d, tr, se).Data) # 512 THEN [err |-> "sector len", data |-> <<>>]
    ELSE readSectorPair(d, IF se + 1 > 9 THEN tr + 1 ELSE tr, IF se + 1 > 9 THEN 1 ELSE se + 1,
                        i + 1, Cat(out, sectorByID(d, tr, se).Data))

getBlock(d, block) ==
    LET at == advanceSectors(1, 1, block * 2)
    IN  readSectorPair(d, at[1], at[2], 0, <<>>)

(* ---------------- peelPlus3Header (zx3dsk.go:583-610) ---------------- *)
(* lines 586-609 for the first 128 bytes h of b *)
peelHeader(b, h) ==
    IF Sub(h, 0, 8) # PLUS3DOS \/ h[9] # 26
    THEN [data |-> b, present |-> FALSE, meta |-> <<>>]
    ELSE [data |-> Slice(b, 128, 128 + Min(Uint16(h[17], h[18]), BLen(b) - 128)),
          present |-> TRUE,
          meta |-> [TotalLength |-> h[12] + 256 * h[13] + 65536 * h[14] + 16777216 * h[15],
                    Type |-> h[16],
                    DataLength |-> Uint16(h[17], h[18]),
                    Param1 |-> Uint16(h[19], h[20]),
                    Param2 |-> Uint16(h[21], h[22]),
                    Checksum |-> h[128],
                    ChecksumOK |-> SumBytes(h, 127) = h[128]]]

peelPlus3Header(b) ==
    IF BLen(b) < 128 THEN [data |-> b, present |-> FALSE, meta |-> <<>>]
    ELSE peelHeader(b, ToLit(b, 0, 128))

(* ---------------- reassembly (zx3dsk.go:667-713) ---------------- *)
(* a loop that passes over a block it cannot read and goes on *)
readBlocksReadOn(st, g) ==
    IF g.err # "" THEN st
    ELSE [st EXCEPT !.bytes = Cat(@, g.data)]

readBlocksRead(st, g) ==
    IF g.err # "" THEN [st EXCEPT !.stop = TRUE]
    ELSE [st EXCEPT !.bytes = Cat(@, g.data)]

(* lines 677-683 for one block number; a failed read leaves the loop *)
readBlocksStep(d, st, b) ==
    IF st.stop \/ b = 0 THEN st ELSE readBlocksRead(st, getBlock(d, b))

RECURSIVE readBlocksRange(_, _, _, _, _)
readBlocksRange(d, st, blocks, lo, hi) ==
    IF st.stop \/ lo > hi THEN st
    ELSE IF lo = hi THEN readBlocksStep(d, st, blocks[lo])
    ELSE readBlocksRange(d, readBlocksRange(d, st, blocks, lo, (lo + hi) \div 2),
                         blocks, (lo + hi) \div 2 + 1, hi)

(* lines 675-683: the bytes of the blocks of one entry *)
readBlocks(d, blocks) ==
    readBlocksRange(d, [stop |-> FALSE, bytes |-> <<>>], blocks, 1, Len(blocks)).bytes

(* lines 685-687: the extent's bytes cut to RC records *)
respectRC(e, extBytes) == Slice(extBytes, 0, Min(e.RC * 128, BLen(extBytes)))

(* lines 672-687: what one extent adds to the file *)
extentBytes(d, e) == respectRC(e, readBlocks(d, e.Blocks))

RECURSIVE assembleRange(_, _, _, _)
(* lines 671-695 for the extents lo .. hi of f.Order *)
assembleRange(d, f, lo, hi) ==
    IF lo > hi THEN <<>>
    ELSE IF lo = hi THEN extentBytes(d, f.Extents[f.Order[lo]])
    ELSE Cat(assembleRange(d, f, lo, (lo + hi) \div 2),
             assembleRange(d, f, (lo + hi) \div 2 + 1, hi))

assemble(d, f) == assembleRange(d, f, 1, Len(f.Order))

(* lines 696-713: the name and the bytes written for the assembled file *)
outputOf(f, keep, fileBytes, peeled) ==
    [base |-> IF TrimRight(f.Name) = <<>> THEN NONAME ELSE TrimRight(f.Name),
     ext |-> TrimRight(f.Ext),
     data |-> IF peeled.present /\ ~keep THEN peeled.data ELSE fileBytes,
     hadHeader |-> peeled.present,
     meta |-> peeled.meta]

outputBytes(f, keep, fileBytes) == outputOf(f, keep, fileBytes, peelPlus3Header(fileBytes))

(* lines 667-720: the file written for f *)
extractFile(d, f, keep) == outputBytes(f, keep, assemble(d, f))

(* ---------------- host folders the model builds from ---------------- *)
(* base names: "a.bas", "A.bas", "A.BAS" (one 8.3 key), "B.scr" *)
NamePool ==
    << <<97, 46, 98, 97, 115>>, <<65, 46, 98, 97, 115>>,
       <<65, 46, 66, 65, 83>>, <<66, 46, 115, 99, 114>> >>

(* body sizes of the folders of several files: one block, two extents *)
SizePool == {14, 16257}

(* one byte more than the 173 file blocks hold behind the header *)
OverSize == (totalBlocks - DirBlocks) * BlockSizeBytes - HeaderLen + 1

(* body sizes of the one-file folders: the boundaries of a block (896),  *)
(* of an extent (16256), of the 16-bit length field (65535) and of the   *)
(* disk (177024), and 200 KiB                                            *)
SoloSizes == {0, 14, 896, 897, 16256, 16257, 65535, 65536, 177024, 177025, 204800}

(* the one-byte files "0NN" of a crowded folder *)
BulkFile(i) == [name |-> <<48, 48 + (i \div 10), 48 + (i % 10)>>, size |-> 1]

(* the pool files chosen by the name indices S with sizes sz, in the *)
(* lexical order filepath.WalkDir visits them                         *)
PoolFiles(S, sz) ==
    LET nth(j) == CHOOSE i \in S : Cardinality({m \in S : m < i}) = j - 1
    IN  [j \in 1..Cardinality(S) |-> [name |-> NamePool[nth(j)], size |-> sz[nth(j)]]]

SoloFolders == {<<[name |-> NamePool[1], size |-> z]>> : z \in SoloSizes}

SmallFolders ==
    UNION {{PoolFiles(S, sz) : sz \in [S -> SizePool]} :
           S \in {T \in SUBSET (1..Len(NamePool)) : Cardinality(T) <= MaxFiles}}

CrowdedFolders ==
    UNION {{[i \in 1..n |-> BulkFile(i)] \o extra :
              extra \in {<<>>} \cup {<<[name |-> NamePool[4], size |-> z]>> : z \in {14, 16257}}} :
           n \in {maxDir - 1, maxDir}}

(* two files of which at least one does not fit the disk *)
FullFolders ==
    {PoolFiles({1, 4}, sz) : sz \in {z \in [{1, 4} -> {14, OverSize}] : \E i \in {1, 4} : z[i] = OverSize}}

Folders == SoloFolders \cup SmallFolders \cup CrowdedFolders \cup FullFolders

(* ---------------- state ---------------- *)
VARIABLES
    items,      \* []FileItem
    sectors,    \* d.Sectors[track][sector]
    dir,        \* the 2 KiB directory buffer, as 64 entries of 32 bytes
    dirIndex,
    nextBlock,
    fi,         \* position of the range loop over items (1-based)
    data,       \* header + body of the item being written
    pos,
    extentNo,
    log,        \* diagnostics written to stderr
    image,      \* the bytes of the .dsk file, one buffer per Write
    keep,       \* the extractor's -keepheader flag
    pdisk,      \* the extractor's parsed disk
    files,      \* the extractor's aggregated files
    xi,         \* position of the range loop over files (1-based)
    outputs,    \* the files written to the output folder, in order
    listing,    \* the directory entries the inspector prints, in order
    call,       \* a function of the program and the arguments it is called with
    ret,        \* what that call returns
    pc

bvars == <<items, sectors, dir, dirIndex, nextBlock, fi, data, pos, extentNo>>

xvars == <<image, keep, pdisk, files, xi, outputs>>

ivars == <<listing, call, ret>>

vars == <<bvars, xvars, ivars, log, pc>>

DiskSpec == <<0, 0, 40, 9, 2, 1, 3, 2, 42, 82, 0, 0, 0, 0, 0, 0>>

(* lines 170-182: all sectors 0xE5, then the disk spec at T0,S1 *)
InitSectors ==
    [t \in 0..(Tracks - 1) |->
       [s \in 0..(SectorsPerTr - 1) |->
          IF t = 0 /\ s = 0
          THEN CopyInto(Rep(Filler, SectorSize), FromLit(DiskSpec))
          ELSE Rep(Filler, SectorSize)]]

(* lines 185-195: one FileItem per regular file, Name83 = base name *)
Collect(w) ==
    [i \in 1..Len(w) |-> [Name83 |-> w[i].name, Path |-> w[i].name,
                          Size |-> w[i].size, id |-> i]]

Init ==
    /\ items \in {Collect(w) : w \in Folders}
    /\ sectors = InitSectors
    /\ dir = [i \in 0..(maxDir - 1) |-> [j \in 1..32 |-> Filler]]
    /\ dirIndex = 0
    /\ nextBlock = DirBlocks
    /\ fi = 1
    /\ data = <<>>
    /\ pos = 0
    /\ extentNo = 0
    /\ log = <<>>
    /\ image = <<>>
    /\ keep = FALSE
    /\ pdisk = NoDisk
    /\ files = <<>>
    /\ xi = 1
    /\ outputs = <<>>
    /\ listing = <<>>
    /\ call = <<>>
    /\ ret = <<>>
    /\ pc = "sort"

(* ---------------- sort (line 197) ---------------- *)
SortKeyExact(it) == it.Name83
SortKey(it) == ToLower(it.Name83)

(* the items whose sort key another item shares *)
Tied(its) ==
    {i \in DOMAIN its : \E j \in DOMAIN its : j # i /\ SortKey(its[j]) = SortKey(its[i])}

(* every way of ranking the tied items among themselves *)
TieBreaks(its) ==
    {r \in [Tied(its) -> 1..Cardinality(Tied(its))] :
       \A i, j \in Tied(its) : i # j => r[i] # r[j]}

(* the number of items placed before item i when ties are broken by r *)
Before(its, r, i) ==
    Cardinality({j \in DOMAIN its :
                   \/ StrLess(SortKey(its[j]), SortKey(its[i]))
                   \/ (j # i /\ SortKey(its[j]) = SortKey(its[i]) /\ r[j] < r[i])})

Ranked(its, rank) == [p \in DOMAIN its |-> its[CHOOSE i \in DOMAIN its : rank[i] = p - 1]]

(* sort.Slice is not stable: every arrangement the comparison allows *)
SortedOrders(its) ==
    {Ranked(its, [i \in DOMAIN its |-> Before(its, r, i)]) : r \in TieBreaks(its)}

Sort ==
    /\ pc = "sort"
    /\ items' \in SortedOrders(items)
    /\ pc' = "dedupe"
    /\ UNCHANGED <<sectors, dir, dirIndex, nextBlock, fi, data, pos, extentNo, log, xvars, ivars>>

(* ---------------- 8.3 & dedupe (lines 199-213) ---------------- *)
Count(used, key) == IF key \in DOMAIN used THEN used[key] ELSE 0

Incr(used, key) ==
    [k \in DOMAIN used \cup {key} |-> IF k = key THEN Count(used, key) + 1 ELSE used[k]]

(* the key given to a file named name when the counts are used *)
dedupeKey(used, name) ==
    LET n == to83(name)
        base == TrimRight(Sub(n, 0, 8))
        ext == TrimRight(Sub(n, 8, 11))
        key == PadRight(base, 8) \o PadRight(ext, 3)
    IN  IF Count(used, key) > 0
        THEN LET bb == PadRight(base, 8)
                 sfx0 == Count(used, key) % 10
                 sfx == IF sfx0 = 0 THEN 1 ELSE sfx0
             IN  PadRight([bb EXCEPT ![8] = 48 + sfx], 8) \o PadRight(ext, 3)
        ELSE key

(* lines 201-212 for item i *)
dedupeStep(st, i) ==
    LET key == dedupeKey(st.used, st.its[i].Name83)
    IN  [its |-> [st.its EXCEPT ![i].Name83 = key], used |-> Incr(st.used, key)]

RECURSIVE dedupeRange(_, _, _)
dedupeRange(st, lo, hi) ==
    IF lo > Len(st.its) \/ lo > hi THEN st
    ELSE IF lo = hi THEN dedupeStep(st, lo)
    ELSE dedupeRange(dedupeRange(st, lo, (lo + hi) \div 2), (lo + hi) \div 2 + 1, hi)

(* lines 200-213 *)
dedupeLoop(its) == dedupeRange([its |-> its, used |-> <<>>], 1, Len(its)).its

Dedupe ==
    /\ pc = "dedupe"
    /\ items' = dedupeLoop(items)
    /\ pc' = "file"
    /\ UNCHANGED <<sectors, dir, dirIndex, nextBlock, fi, data, pos, extentNo, log, xvars, ivars>>

(* ---------------- the file loop (lines 271-302) ---------------- *)
(* lines 272-274: data = header + body *)
fileData(it) ==
    LET c == chooseHeader(it.Path)
    IN  Cat(FromLit(plus3Header(it.Size, c.typ, c.p1, c.p2)), BodyBytes(it.id, 0, it.Size))

(* line 277 *)
DirFullSkip ==
    /\ pc = "file"
    /\ fi <= Len(items)
    /\ dirIndex >= maxDir
    /\ log' = Append(log, <<"Directory full; skipping", items[fi].id>>)
    /\ fi' = fi + 1
    /\ UNCHANGED <<items, sectors, dir, dirIndex, nextBlock, data, pos, extentNo, pc, xvars, ivars>>

(* lines 272-281: the item has a directory slot; enter the extent loop *)
StartFile ==
    /\ pc = "file"
    /\ fi <= Len(items)
    /\ dirIndex < maxDir
    /\ \E d \in {fileData(items[fi])} :
         /\ data' = d
         /\ IF BLen(d) = 0
            THEN /\ dir' = putDir(dir, dirIndex, makeDirEntry(items[fi].Name83, 0, 0, <<>>))
                 /\ dirIndex' = dirIndex + 1
                 /\ fi' = fi + 1
                 /\ pc' = pc
            ELSE /\ pc' = "extent"
                 /\ UNCHANGED <<dir, dirIndex, fi>>
    /\ pos' = 0
    /\ extentNo' = 0
    /\ UNCHANGED <<items, sectors, nextBlock, log, xvars, ivars>>

(* lines 283-287 for the extent about to be written *)
thisAlloc == alloc(nextBlock, needOf(bytesThisOf(BLen(data), pos)))

(* lines 282-300: one iteration that allocates, writes and records an extent *)
ExtentStep ==
    /\ pc = "extent"
    /\ pos < BLen(data)
    /\ ~thisAlloc.err
    /\ ~putDirPanics(dirIndex)
    /\ \E w \in {writeBlocks(sectors, thisAlloc.blocks, data, pos, BLen(data))} :
         IF w.err
         THEN /\ pc' = "builderr"
              /\ UNCHANGED <<sectors, dir, dirIndex, pos, extentNo>>
         ELSE /\ sectors' = w.secs
              /\ dir' = putDir(dir, dirIndex,
                               makeDirEntry(items[fi].Name83, extentNo,
                                            rcOf(bytesThisOf(BLen(data), pos)),
                                            thisAlloc.blocks))
              /\ dirIndex' = dirIndex + 1
              /\ pos' = pos + bytesThisOf(BLen(data), pos)
              /\ extentNo' = extentNo + 1
              /\ pc' = pc
    /\ nextBlock' = thisAlloc.next
    /\ UNCHANGED <<items, fi, data, log, xvars, ivars>>

(* lines 287-297 with dirIndex = 64: the blocks are written, putDir panics *)
ExtentPanic ==
    /\ pc = "extent"
    /\ pos < BLen(data)
    /\ ~thisAlloc.err
    /\ putDirPanics(dirIndex)
    /\ \E w \in {writeBlocks(sectors, thisAlloc.blocks, data, pos, BLen(data))} :
         /\ sectors' = w.secs
         /\ pc' = IF w.err THEN "builderr" ELSE "panic"
    /\ nextBlock' = thisAlloc.next
    /\ UNCHANGED <<items, dir, dirIndex, fi, data, pos, extentNo, log, xvars, ivars>>

(* line 288: alloc refuses, the extent loop is left *)
DiskFull ==
    /\ pc = "extent"
    /\ pos < BLen(data)
    /\ thisAlloc.err
    /\ log' = Append(log, <<"Disk full; truncating", items[fi].id>>)
    /\ nextBlock' = thisAlloc.next
    /\ fi' = fi + 1
    /\ pc' = "file"
    /\ UNCHANGED <<items, sectors, dir, dirIndex, data, pos, extentNo, xvars, ivars>>

(* line 282: pos = total, the extent loop ends *)
EndFile ==
    /\ pc = "extent"
    /\ pos >= BLen(data)
    /\ fi' = fi + 1
    /\ pc' = "file"
    /\ UNCHANGED <<items, sectors, dir, dirIndex, nextBlock, data, pos, extentNo, log, xvars, ivars>>

RECURSIVE dirBytes(_, _, _)
(* dir[first*32 : (last+1)*32] of the directory buffer *)
dirBytes(d, first, last) ==
    IF first > last THEN <<>>
    ELSE IF first = last THEN FromLit(d[first])
    ELSE Cat(dirBytes(d, first, (first + last) \div 2),
             dirBytes(d, (first + last) \div 2 + 1, last))

(* a directory write that lands on track 0 *)
copyDirTrack0(secs, d) ==
    [secs EXCEPT ![0] =
       [s \in DOMAIN secs[0] |->
          IF s < dirSectorCount
          THEN CopyInto(secs[0][s], dirBytes(d, s * (SectorSize \div 32),
                                             (s + 1) * (SectorSize \div 32) - 1))
          ELSE secs[0][s]]]

(* lines 305-308: the directory buffer copied to sectors 1..4 of track 1 *)
copyDir(secs, d) ==
    [secs EXCEPT ![1] =
       [s \in DOMAIN secs[1] |->
          IF s < dirSectorCount
          THEN CopyInto(secs[1][s], dirBytes(d, s * (SectorSize \div 32),
                                             (s + 1) * (SectorSize \div 32) - 1))
          ELSE secs[1][s]]]

(* lines 304-309 *)
WriteDirectory ==
    /\ pc = "file"
    /\ fi > Len(items)
    /\ sectors' = copyDir(sectors, dir)
    /\ pc' = "built"
    /\ UNCHANGED <<items, dir, dirIndex, nextBlock, fi, data, pos, extentNo, log, xvars, ivars>>

(* ---------------- zx3dsk main: the image file (lines 339-342) ---------------- *)
Emit ==
    /\ pc = "built"
    /\ image' = writeEDSK(sectors)
    /\ pc' = "emitted"
    /\ UNCHANGED <<bvars, keep, pdisk, files, xi, outputs, log, ivars>>

(* ---------------- zx3extract main (lines 630-740) ---------------- *)
(* lines 631-649: the flags, then parseDSK *)
Parse ==
    /\ pc = "emitted"
    /\ \E p \in {parseDSK(image)} :
         /\ pdisk' = p.d
         /\ pc' = IF p.err = "" THEN "parsed"
                  ELSE IF p.err = "panic" THEN "parse panic" ELSE "parse error"
         /\ log' = IF p.err = "" THEN log
                   ELSE IF p.err = "panic"
                        THEN Append(log, <<"panic: runtime error: index out of range", 0>>)
                   ELSE Append(log, <<"Parse error", p.err>>)
    /\ keep' \in BOOLEAN
    /\ UNCHANGED <<bvars, image, files, xi, outputs, ivars>>

(* lines 650-665: the signature check, the directory, the aggregation *)
ReadDirectory ==
    /\ pc = "parsed"
    /\ \E ds \in {dirSectors(pdisk)} :
       \E warn \in {IF looksPlus3Spec(specT0S1(pdisk)) THEN log
                    ELSE Append(log, <<"Warning: not a +3 PCW-180K layout", 0>>)} :
         IF ds.err # ""
         THEN /\ log' = Append(warn, <<"Directory not found", ds.err>>)
              /\ pc' = "no directory"
              /\ files' = files
         ELSE /\ log' = warn
              /\ \E entries \in {parseDir(ds.secs)} :
                   IF Len(entries) = 0
                   THEN /\ pc' = "done"
                        /\ files' = files
                   ELSE /\ pc' = "extract"
                        /\ \E r \in extentTieBreaks(entries) : files' = aggregate(entries, r)
    /\ UNCHANGED <<bvars, image, keep, pdisk, xi, outputs, ivars>>

(* lines 667-720: one iteration of the loop over the files *)
ExtractFile ==
    /\ pc = "extract"
    /\ xi <= Len(files)
    /\ outputs' = Append(outputs, extractFile(pdisk, files[xi], keep))
    /\ xi' = xi + 1
    /\ pc' = IF xi = Len(files) THEN "done" ELSE pc
    /\ UNCHANGED <<bvars, image, keep, pdisk, files, log, ivars>>

Next ==
    \/ Sort
    \/ Dedupe
    \/ DirFullSkip
    \/ StartFile
    \/ ExtentStep
    \/ ExtentPanic
    \/ DiskFull
    \/ EndFile
    \/ WriteDirectory
    \/ Emit
    \/ Parse
    \/ ReadDirectory
    \/ ExtractFile

Spec == Init /\ [][Next]_vars


(* ---------------- calls of single functions ---------------- *)
(* the builder and the readers at rest *)
AtRest ==
    /\ items = <<>>
    /\ sectors = InitSectors
    /\ dir = [i \in 0..(maxDir - 1) |-> [j \in 1..32 |-> Filler]]
    /\ dirIndex = 0
    /\ nextBlock = DirBlocks
    /\ fi = 1
    /\ data = <<>>
    /\ pos = 0
    /\ extentNo = 0
    /\ log = <<>>
    /\ keep = FALSE
    /\ pdisk = NoDisk
    /\ files = <<>>
    /\ xi = 1
    /\ outputs = <<>>
    /\ listing = <<>>

(* plus3Header(body, typ, p1, p2): body lengths around the 8-, 16- and *)
(* 24-bit boundaries, type bytes, parameters in and beyond 16 bits     *)
HeaderCalls ==
    {[fn |-> "plus3Header", a |-> <<n, t, p1, p2>>] :
       n \in {0, 1, 127, 128, 255, 65407, 65408, 65535, 65536, 16777088},
       t \in {0, 1, 2, 3, 255},
       p1 \in {0, 16384, 32768, 65535, 65541},
       p2 \in {0, 1, 32768}}

(* the ends of base names: what follows the stem, and the N it stands for *)
(* (0 where it names no decimal integer): "", "@0", "@1", "@49152",       *)
(* "@65535", "@65536", "@x1", "@", "@-5", "@12@7", "@007", "@+5"          *)
Suffixes ==
    { [text |-> <<>>, n |-> 0],
      [text |-> <<64, 48>>, n |-> 0],
      [text |-> <<64, 49>>, n |-> 1],
      [text |-> <<64, 52, 57, 49, 53, 50>>, n |-> 49152],
      [text |-> <<64, 54, 53, 53, 51, 53>>, n |-> 65535],
      [text |-> <<64, 54, 53, 53, 51, 54>>, n |-> 65536],
      [text |-> <<64, 120, 49>>, n |-> 0],
      [text |-> <<64>>, n |-> 0],
      [text |-> <<64, 45, 53>>, n |-> -5],
      [text |-> <<64, 49, 50, 64, 55>>, n |-> 7],
      [text |-> <<64, 48, 48, 55>>, n |-> 7],
      [text |-> <<64, 43, 53>>, n |-> 5] }

(* extensions and the kind of file they stand for: "", ".scr", ".SCR", *)
(* ".Scr", ".bas", ".BAS", ".bin", ".CODE", ".txt", ".tap"             *)
Extensions ==
    { [text |-> <<>>, kind |-> "other"],
      [text |-> <<46, 115, 99, 114>>, kind |-> "SCR"],
      [text |-> <<46, 83, 67, 82>>, kind |-> "SCR"],
      [text |-> <<46, 83, 99, 114>>, kind |-> "SCR"],
      [text |-> <<46, 98, 97, 115>>, kind |-> "BAS"],
      [text |-> <<46, 66, 65, 83>>, kind |-> "BAS"],
      [text |-> <<46, 98, 105, 110>>, kind |-> "BIN"],
      [text |-> <<46, 67, 79, 68, 69>>, kind |-> "CODE"],
      [text |-> <<46, 116, 120, 116>>, kind |-> "other"],
      [text |-> <<46, 116, 97, 112>>, kind |-> "other"] }

(* the stem of the base names: "game" *)
Stem == <<103, 97, 109, 101>>

(* chooseHeader(path) for the base names stem + suffix + extension *)
ChooseCalls ==
    {[fn |-> "chooseHeader", a |-> <<Stem \o sfx.text \o e.text>>] :
       sfx \in Suffixes, e \in Extensions}

(* disk-parameter blocks: the builder's, then one field changed at a time *)
(* (byte k of the block is element k + 1)                                  *)
SpecFieldValues ==
    { <<1, 1>>, <<2, 1>>, <<2, 2>>, <<3, 39>>, <<3, 80>>, <<4, 8>>, <<4, 10>>,
      <<5, 3>>, <<6, 0>>, <<6, 2>>, <<7, 4>>, <<8, 1>>, <<9, 0>>, <<10, 0>>,
      <<11, 7>>, <<16, 255>> }

SpecBlocks ==
    {DiskSpec, [i \in 1..16 |-> Filler], [i \in 1..16 |-> 0]}
      \cup {[DiskSpec EXCEPT ![v[1]] = v[2]] : v \in SpecFieldValues}

(* looksPlus3Spec(b) for the 16 bytes b found at T0,S1 *)
SpecCalls == {[fn |-> "looksPlus3Spec", a |-> <<b>>] : b \in SpecBlocks}

(* blockToCHS(n) and getBlock(d, n) for the allocation blocks of the disk: *)
(* the argument of the one, then of the other                              *)
BlockCalls == {[fn |-> "blockMap", a |-> <<n, n>>] : n \in 0..(totalBlocks - 1)}

Calls == HeaderCalls \cup ChooseCalls \cup SpecCalls \cup BlockCalls

CallInit ==
    /\ AtRest
    /\ image = <<>>
    /\ call \in Calls
    /\ ret = <<>>
    /\ pc = "call"

(* zx3dsk.go:77-96 *)
CallPlus3Header ==
    /\ pc = "call"
    /\ call.fn = "plus3Header"
    /\ ret' = plus3Header(call.a[1], call.a[2], call.a[3], call.a[4])
    /\ pc' = "return"
    /\ UNCHANGED <<bvars, xvars, listing, call, log>>

(* zx3dsk.go:109-125 *)
CallChooseHeader ==
    /\ pc = "call"
    /\ call.fn = "chooseHeader"
    /\ ret' = chooseHeader(call.a[1])
    /\ pc' = "return"
    /\ UNCHANGED <<bvars, xvars, listing, call, log>>

(* zx3dsk.go:469-471 *)
CallLooksPlus3Spec ==
    /\ pc = "call"
    /\ call.fn = "looksPlus3Spec"
    /\ ret' = looksPlus3Spec([nil |-> FALSE, b |-> call.a[1]])
    /\ pc' = "return"
    /\ UNCHANGED <<bvars, xvars, listing, call, log>>

(* a disk whose every sector holds 512 bytes of its own: sector s (0-based) *)
(* of track t the bytes of "file" t * 9 + s                                *)
MarkedSectors ==
    [t \in 0..(Tracks - 1) |->
       [s \in 0..(SectorsPerTr - 1) |-> BodyBytes(t * SectorsPerTr + s, 0, SectorSize)]]

(* zx3dsk.go:237-249 and, on the marked disk written by writeEDSK and read *)
(* back by parseDSK, zx3dsk.go:540-564                                     *)
CallBlockMap ==
    /\ pc = "call"
    /\ call.fn = "blockMap"
    /\ ret' = [builder |-> blockToCHS(call.a[1]),
               extractor |-> getBlock(parseDSK(writeEDSK(MarkedSectors)).d, call.a[2])]
    /\ pc' = "return"
    /\ UNCHANGED <<bvars, xvars, listing, call, log>>

CallNext ==
    \/ CallBlockMap
    \/ CallPlus3Header
    \/ CallChooseHeader
    \/ CallLooksPlus3Spec

CallSpec == CallInit /\ [][CallNext]_vars

(* ---------------- zx3info main (part_000:272-315) ---------------- *)
(* lines 303-313: the row printed for one raw directory entry *)
listingRow(e) ==
    [User |-> e.User, Name |-> e.Name, Ext |-> e.Ext, Extent |-> extentNum(e),
     RC |-> e.RC, Blocks |-> SelectSeq(e.Blocks, LAMBDA b : b # 0)]

(* lines 286-314: the signature check, then the directory as a table *)
Inspect ==
    /\ pc = "parsed"
    /\ IF ~looksPlus3Spec(specT0S1(pdisk))
       THEN /\ log' = Append(log, <<"Not a +3 (PCW-180K) layout. Showing geometry only.", 0>>)
            /\ pc' = "geometry only"
            /\ listing' = listing
       ELSE \E ds \in {dirSectors(pdisk)} :
              IF ds.err # ""
              THEN /\ log' = Append(log, <<"directory not in +3 default layout", ds.err>>)
                   /\ pc' = "no directory"
                   /\ listing' = listing
              ELSE /\ log' = log
                   /\ pc' = "listed"
                   /\ listing' = [i \in DOMAIN parseDir(ds.secs) |->
                                    listingRow(parseDir(ds.secs)[i])]
    /\ UNCHANGED <<bvars, xvars, call, ret>>

(* ---------------- image files the readers are run on ---------------- *)
(* cylinders of the image files written by hand *)
CraftTracks == 4

(* one 32-byte directory entry: user, name, extension, EX, S1, RC and the *)
(* allocation-block bytes ab, zero filled to 16                           *)
rawEntry(u, name, ext, ex, s1, rc, ab) ==
    <<u>> \o PadRight(name, 8) \o PadRight(ext, 3) \o <<ex, s1, 0, rc>>
          \o [i \in 1..16 |-> IF i <= Len(ab) THEN ab[i] ELSE 0]

RECURSIVE flatten(_, _, _)
(* the entries lo .. hi of es, one after the other *)
flatten(es, lo, hi) ==
    IF lo > hi THEN <<>>
    ELSE IF lo = hi THEN es[lo]
    ELSE flatten(es, lo, (lo + hi) \div 2) \o flatten(es, (lo + hi) \div 2 + 1, hi)

(* directory sector s (0-based) holding its 16 of the entries es, the *)
(* slots behind them 0xE5                                             *)
craftDirSector(es, s) ==
    CopyInto(Rep(Filler, SectorSize),
             FromLit(flatten(es, s * 16 + 1, Min(Len(es), s * 16 + 16))))

(* sector s (0-based) of track t: the spec block at T0,S1, the directory  *)
(* on sectors 1..4 of track 1, and every other sector of the tracks >= 1  *)
(* filled with its own number, counted from sector 1 of track 1: block n  *)
(* is 512 bytes 2n and 512 bytes 2n + 1                                   *)
craftSector(sh, t, s) ==
    IF t = 0 THEN (IF s = 0 THEN CopyInto(Rep(Filler, SectorSize), FromLit(sh.spec))
                   ELSE Rep(Filler, SectorSize))
    ELSE IF t = 1 /\ s < 4 THEN craftDirSector(sh.dir, s)
    ELSE Rep(ToByte((t - 1) * SectorsPerTr + s), SectorSize)

(* the disk header of writeEDSK for CraftTracks cylinders with the size *)
(* table bytes sh.size                                                  *)
craftDiskHeader(sh) ==
    [i \in 1..256 |->
       IF i = 49 THEN CraftTracks
       ELSE IF i >= 53 THEN (IF i - 53 < CraftTracks THEN sh.size[i - 53] ELSE 0)
       ELSE diskHeader[i]]

(* the track header of writeEDSK with the sector-count byte sh.count[t] *)
craftTrackHeader(sh, t) == [trackHeader(t) EXCEPT ![22] = sh.count[t]]

(* the buffers of one track: header, 9 sectors, sh.pad[t] bytes of padding *)
(* nothing for a track the size table gives as absent                     *)
craftTrack(sh, t) ==
    IF sh.size[t] = 0 THEN <<>>
    ELSE <<FromLit(craftTrackHeader(sh, t))>>
           \o [s \in 1..SectorsPerTr |-> craftSector(sh, t, s - 1)]
           \o (IF sh.pad[t] > 0 THEN <<Rep(0, sh.pad[t])>> ELSE <<>>)

RECURSIVE craftTracks(_, _, _)
craftTracks(sh, lo, hi) ==
    IF lo > hi THEN <<>>
    ELSE IF lo = hi THEN craftTrack(sh, lo)
    ELSE craftTracks(sh, lo, (lo + hi) \div 2) \o craftTracks(sh, (lo + hi) \div 2 + 1, hi)

RECURSIVE FileLenRange(_, _, _)
FileLenRange(f, lo, hi) ==
    IF lo > hi THEN 0
    ELSE IF lo = hi THEN BLen(f[lo])
    ELSE FileLenRange(f, lo, (lo + hi) \div 2) + FileLenRange(f, (lo + hi) \div 2 + 1, hi)

(* the size of the file f in bytes *)
FileLen(f) == FileLenRange(f, 1, Len(f))

RECURSIVE takeFile(_, _, _)
(* the first n bytes of the buffers i .. of the file f *)
takeFile(f, i, n) ==
    IF n <= 0 \/ i > Len(f) THEN <<>>
    ELSE IF BLen(f[i]) <= n THEN <<f[i]>> \o takeFile(f, i + 1, n - BLen(f[i]))
    ELSE <<Slice(f[i], 0, n)>>

(* the image file of the shape sh, cut to its first sh.len bytes *)
craftImage(sh) ==
    takeFile(<<FromLit(craftDiskHeader(sh))>> \o craftTracks(sh, 0, CraftTracks - 1),
             1, sh.len)

(* more bytes than an image file of 204 tracks of 255 * 256 bytes holds *)
WholeFile == 256 + 204 * 65280 + 1

(* names of the files of the hand-written directories: "A", "B", "BIN" *)
NameA == <<65>>
NameB == <<66>>
ExtBIN == <<66, 73, 78>>

(* hand-written directories.  Blocks 2..3 lie on track 1, 5..8 on track 2, *)
(* 200 beyond every image.                                                 *)
Directories ==
    { <<>>,
      \* one file of one extent
      <<rawEntry(0, NameA, ExtBIN, 0, 0, 16, <<2, 3>>)>>,
      \* an empty slot between two blocks
      <<rawEntry(0, NameA, ExtBIN, 0, 0, 16, <<2, 0, 3>>)>>,
      \* fewer records than the blocks hold; more records than they hold
      <<rawEntry(0, NameA, ExtBIN, 0, 0, 9, <<2, 3>>),
        rawEntry(0, NameB, ExtBIN, 0, 0, 128, <<5>>)>>,
      \* a block beyond the disk in the first of two extents, then a file
      <<rawEntry(0, NameA, ExtBIN, 0, 0, 24, <<2, 200, 3>>),
        rawEntry(0, NameA, ExtBIN, 1, 0, 8, <<10>>),
        rawEntry(0, NameB, ExtBIN, 0, 0, 8, <<5>>)>>,
      \* the extents of a file stored last first, a deleted entry between
      <<rawEntry(0, NameA, ExtBIN, 1, 0, 8, <<3>>),
        rawEntry(229, NameA, ExtBIN, 0, 0, 8, <<9>>),
        rawEntry(0, NameA, ExtBIN, 0, 0, 8, <<2>>)>>,
      \* two entries of one file with the same EX and S1
      <<rawEntry(0, NameA, ExtBIN, 0, 0, 8, <<2>>),
        rawEntry(0, NameA, ExtBIN, 0, 0, 8, <<3>>)>>,
      \* two entries of one extent number with different EX (0 and 32)
      <<rawEntry(0, NameA, ExtBIN, 0, 0, 8, <<2>>),
        rawEntry(0, NameA, ExtBIN, 32, 0, 8, <<3>>)>>,
      \* one name under two users, an entry with S1 set
      <<rawEntry(1, NameA, ExtBIN, 0, 0, 8, <<3>>),
        rawEntry(0, NameA, ExtBIN, 0, 1, 4, <<6>>),
        rawEntry(0, NameA, ExtBIN, 31, 0, 8, <<2>>)>> }

(* the directory of the images whose other fields vary: blocks on the *)
(* tracks 1, 2 and 3 and one beyond the disk                          *)
GoodDir ==
    <<rawEntry(0, NameA, ExtBIN, 0, 0, 24, <<2, 6, 3>>),
      rawEntry(0, NameA, ExtBIN, 1, 0, 8, <<10>>),
      rawEntry(0, NameB, ExtBIN, 0, 0, 8, <<5>>)>>

(* an image as writeEDSK lays it out, of CraftTracks cylinders *)
BaseShape ==
    [spec |-> DiskSpec, dir |-> GoodDir,
     size |-> [t \in 0..(CraftTracks - 1) |-> TrackSize \div 256],
     count |-> [t \in 0..(CraftTracks - 1) |-> SectorsPerTr],
     pad |-> [t \in 0..(CraftTracks - 1) |-> 0],
     len |-> WholeFile]

(* the tracks whose fields vary: the first, the directory's, the last *)
CraftVaried == {0, 1, 2, CraftTracks - 1}

(* images with another disk-parameter block *)
SpecShapes ==
    {[BaseShape EXCEPT !.spec = s, !.dir = d] :
       s \in {DiskSpec, [i \in 1..16 |-> Filler], [DiskSpec EXCEPT ![3] = 39],
              [DiskSpec EXCEPT ![6] = 0]},
       d \in {<<>>, GoodDir}}

(* images with another size-table byte for one track: smaller than the *)
(* track, larger with and without the padding in the file, absent      *)
SizeShapes ==
    {[BaseShape EXCEPT !.size[t] = z[1], !.pad[t] = z[2]] :
       t \in CraftVaried, z \in {<<18, 0>>, <<1, 0>>, <<20, 256>>, <<20, 0>>, <<0, 0>>}}

(* images with another sector-count byte in one track header *)
CountShapes ==
    {[BaseShape EXCEPT !.count[t] = c] :
       t \in CraftVaried, c \in {0, 1, 8, 10, 29, 30, 255}}

(* images cut short: in the disk header, in a track header, in a sector, *)
(* between tracks, in the last sector                                    *)
LenShapes ==
    {[BaseShape EXCEPT !.len = n] :
       n \in {0, 100, 256, 300, 512, 1023, 256 + TrackSize, 256 + TrackSize + 12,
              256 + CraftTracks * TrackSize - SectorSize,
              256 + CraftTracks * TrackSize - 1}}

DirShapes == {[BaseShape EXCEPT !.dir = d] : d \in Directories}

Shapes == SpecShapes \cup SizeShapes \cup CountShapes \cup LenShapes \cup DirShapes

CraftedImages == {craftImage(sh) : sh \in Shapes}

(* the readers started on a hand-written image file *)
ReadInit ==
    /\ AtRest
    /\ image \in CraftedImages
    /\ call = <<>>
    /\ ret = <<>>
    /\ pc = "emitted"

ReadNext ==
    \/ Parse
    \/ ReadDirectory
    \/ ExtractFile
    \/ Inspect

ReadSpec == ReadInit /\ [][ReadNext]_vars

(* ---------------- the directory area of a built disk ---------------- *)
(* the 2 KiB held by sectors 1..4 of track 1, as an array of bytes; byte k *)
(* (0-based) of directory entry i is b[i * 32 + k + 1]                     *)
dirArea(secs) ==
    Expand(secs[1][0]) \o Expand(secs[1][1]) \o Expand(secs[1][2]) \o Expand(secs[1][3])

(* entry i is in use: its user byte is not the 0xE5 filler *)
InUse(b, i) == b[i * 32 + 1] # 229

(* the allocation-block byte in slot j (0..15) of entry i *)
AB(b, i, j) == b[i * 32 + 16 + j + 1]

(* the number of non-zero allocation-block slots of entry i *)
SlotCount(b, i) == Cardinality({j \in 0..15 : AB(b, i, j) # 0})

(* the extent number of entry i: EX + 32 * S1 *)
ExtentNumber(b, i) == b[i * 32 + 13] + 32 * b[i * 32 + 14]

(* the 11 name bytes of entry i *)
EntryName(b, i) == [k \in 1..11 |-> b[i * 32 + 1 + k]]

(* the diagnostic msg has been logged *)
Logged(msg) == \E i \in DOMAIN log : log[i][1] = msg

(* ---------------- C1 ---------------- *)
(* C1: content round-trip. For every single input file with body b, of any  *)
(* length, building an image from it and extracting it with header          *)
(* stripping writes one output file whose bytes are exactly b.              *)
C1_ContentRoundTrip ==
    (pc = "done" /\ Len(items) = 1 /\ ~keep)
        => /\ Len(outputs) = 1
           /\ outputs[1].data = BodyBytes(items[1].id, 0, items[1].Size)

(* ---------------- C2 ---------------- *)
(* the number of items before item i whose name normalises to the same key *)
Earlier(its, i) ==
    Cardinality({j \in 1..(i - 1) : to83(its[j].Path) = to83(its[i].Path)})

(* C2: name-collision resolution. After the 8.3 normalisation and the       *)
(* de-duplication pass every item has an 11-byte key distinct from the key  *)
(* of every other item; among the files that normalise to one key the first *)
(* keeps it and the 2nd..10th get the digits 1..9 as 8th character.         *)
C2_KeysDistinct ==
    (pc = "file" /\ fi = 1 /\ dirIndex = 0)
        => /\ \A i, j \in DOMAIN items : i # j => items[i].Name83 # items[j].Name83
           /\ \A i \in DOMAIN items :
                /\ Earlier(items, i) = 0 => items[i].Name83 = to83(items[i].Path)
                /\ Earlier(items, i) \in 1..9
                     => items[i].Name83[8] = 48 + Earlier(items, i)

(* ---------------- C3 ---------------- *)
(* C3: directory-full is non-fatal. For every set of input files the build  *)
(* completes: it never aborts on a directory write, at most 64 directory    *)
(* entries are written and none outside the 2 KiB directory buffer, also    *)
(* when the directory fills up part-way through a multi-extent file.        *)
C3_DirectoryFullNonFatal ==
    /\ pc # "panic"
    /\ dirIndex <= 64

(* ---------------- C4 ---------------- *)
(* the extent about to be written needs more blocks than remain of the 175 *)
Refused ==
    /\ pc = "extent"
    /\ pos < BLen(data)
    /\ (Min(BLen(data) - pos, 16384) + 1023) \div 1024 > 175 - nextBlock

(* C4: disk-full leaves the state intact. When an extent needs more blocks  *)
(* than remain, the step that refuses it reserves no block, changes no      *)
(* sector and no directory entry (so the earlier extents of the file stay   *)
(* as written), gives the file no further extent and goes on to the next    *)
(* file.                                                                    *)
C4_DiskFullIntact ==
    [][Refused => /\ nextBlock' = nextBlock
                  /\ sectors' = sectors
                  /\ dir' = dir
                  /\ dirIndex' = dirIndex
                  /\ fi' = fi + 1
                  /\ pc' = "file"]_vars

(* a file that already has extents has just been refused a further one *)
C4_Witness ==
    /\ pc = "file"
    /\ extentNo > 0
    /\ Len(log) > 0
    /\ log[Len(log)][1] = "Disk full; truncating"

(* ---------------- C5 ---------------- *)
BlockBytesValid(b) ==
    /\ \A i \in 0..63 : \A j \in 0..15 :
         (InUse(b, i) /\ AB(b, i, j) # 0) => (2 <= AB(b, i, j) /\ AB(b, i, j) < 175)
    /\ Cardinality({AB(b, n \div 16, n % 16) :
                      n \in {m \in 0..1023 : InUse(b, m \div 16) /\ AB(b, m \div 16, m % 16) # 0}})
         = Cardinality({m \in 0..1023 : InUse(b, m \div 16) /\ AB(b, m \div 16, m % 16) # 0})

(* C5: in every built image every non-zero allocation-block byte a of every *)
(* directory entry satisfies 2 <= a < 175, and no allocation-block number   *)
(* appears in two slots of the directory.                                   *)
C5_BlockNumbersValid == pc = "built" => BlockBytesValid(dirArea(sectors))

HasBlock(b, n) == \E i \in 0..63 : \E j \in 0..15 : InUse(b, i) /\ AB(b, i, j) = n

(* a built image whose files take every block up to 174 *)
C5_Witness == pc = "built" /\ HasBlock(dirArea(sectors), 174)

(* ---------------- C6 ---------------- *)
RecordCountsValid(b) ==
    \A i \in 0..63 :
        InUse(b, i)
            => /\ b[i * 32 + 16] \in 1..128
               /\ SlotCount(b, i) = (b[i * 32 + 16] * 128 + 1023) \div 1024
               /\ SlotCount(b, i) <= 16

(* C6: in every built image every directory entry written by the builder    *)
(* has RC in 1..128, and its number of non-zero allocation-block slots is   *)
(* ceil(RC * 128 / 1024), at most 16.                                       *)
C6_RecordCountValid == pc = "built" => RecordCountsValid(dirArea(sectors))

HasRecordCount(b, rc) == \E i \in 0..63 : InUse(b, i) /\ b[i * 32 + 16] = rc

(* a built image with a full extent (RC 128) and a one-record extent *)
C6_Witness ==
    /\ pc = "built"
    /\ HasRecordCount(dirArea(sectors), 128)
    /\ HasRecordCount(dirArea(sectors), 1)

(* ---------------- C7 ---------------- *)
(* the sector payloads of a parsed disk, laid out as the builder's disk *)
parsedSectors(d) ==
    [t \in 0..39 |-> [s \in 0..8 |-> d.Tracks[t + 1].Sectors[s + 1].Data]]

(* C7: builder round-trip of the container. For every disk the builder      *)
(* produces, parsing the bytes written by emit succeeds and yields 40       *)
(* tracks of 9 sectors with record IDs 1..9 in order, each payload being    *)
(* the 512 bytes of that sector of the built disk, and emitting the parsed  *)
(* content gives the same byte stream.                                      *)
C7_ContainerRoundTrip ==
    /\ pc # "parse error"
    /\ pc = "parsed"
         => /\ Len(pdisk.Tracks) = 40
            /\ \A t \in 0..39 :
                 /\ Len(pdisk.Tracks[t + 1].Sectors) = 9
                 /\ \A s \in 1..9 :
                      /\ pdisk.Tracks[t + 1].Sectors[s].R = s
                      /\ BLen(pdisk.Tracks[t + 1].Sectors[s].Data) = 512
                      /\ pdisk.Tracks[t + 1].Sectors[s].Data = sectors[t][s - 1]
            /\ writeEDSK(parsedSectors(pdisk)) = image

(* the image of a disk that holds files has been parsed *)
C7_Witness == pc = "parsed" /\ dirIndex >= 2 /\ nextBlock > 20

(* ---------------- C8 ---------------- *)
(* the first item after item p that owns the name of entry i, 0 if none *)
nextOwner(b, its, i, p) ==
    IF \E q \in (p + 1)..Len(its) : its[q].Name83 = EntryName(b, i)
    THEN CHOOSE q \in (p + 1)..Len(its) :
           /\ its[q].Name83 = EntryName(b, i)
           /\ \A r \in (p + 1)..(q - 1) : its[r].Name83 # EntryName(b, i)
    ELSE 0

RECURSIVE FilesInItemOrder(_, _, _, _)
RECURSIVE StartsAt(_, _, _, _)
(* the entries i.. belong to items in item order, item p owning entry i-1 *)
(* (p = 0 before the first entry)                                         *)
FilesInItemOrder(b, its, i, p) ==
    IF i > 63 THEN TRUE
    ELSE IF ~InUse(b, i) THEN TRUE
    ELSE IF ExtentNumber(b, i) # 0 THEN FilesInItemOrder(b, its, i + 1, p)
    ELSE StartsAt(b, its, i, nextOwner(b, its, i, p))

(* entry i starts the file of item q *)
StartsAt(b, its, i, q) == q # 0 /\ FilesInItemOrder(b, its, i + 1, q)

(* extent numbers go 0, 1, 2, ... within each file *)
ExtentsInOrder(b) ==
    \A i \in 0..63 :
        InUse(b, i)
            => \/ ExtentNumber(b, i) = 0
               \/ /\ i > 0
                  /\ InUse(b, i - 1)
                  /\ EntryName(b, i - 1) = EntryName(b, i)
                  /\ ExtentNumber(b, i) = ExtentNumber(b, i - 1) + 1

(* read in index order the non-zero slots are 2, 3, 4, ... *)
BlocksSequential(b) ==
    \A i \in 0..63 :
        InUse(b, i)
            => /\ i > 0 => InUse(b, i - 1)
               /\ SlotCount(b, i) >= 1
               /\ \A j \in 0..15 : (AB(b, i, j) # 0) <=> (j < SlotCount(b, i))
               /\ AB(b, i, 0) = IF i = 0 THEN 2
                                ELSE AB(b, i - 1, SlotCount(b, i - 1) - 1) + 1
               /\ \A j \in 1..15 : AB(b, i, j) # 0 => AB(b, i, j) = AB(b, i, j - 1) + 1

BuiltInOrder(b) ==
    /\ FilesInItemOrder(b, items, 0, 0)
    /\ ExtentsInOrder(b)
    /\ BlocksSequential(b)

(* C8: build ordering. The files are written in case-insensitive base-name  *)
(* order, the extents of each file with extent numbers 0, 1, 2, ..., and    *)
(* allocation is strictly sequential: read in index order the non-zero      *)
(* allocation-block slots of the directory are exactly 2, 3, 4, ..., k,     *)
(* also after a disk-full refusal.                                          *)
C8_BuildOrdering ==
    /\ pc # "sort"
         => \A i \in 1..(Len(items) - 1) :
              ~StrLess(ToLower(items[i + 1].Path), ToLower(items[i].Path))
    /\ pc = "built" => BuiltInOrder(dirArea(sectors))

(* a built image where a file was refused an extent and a later file was *)
(* still stored                                                          *)
C8_Witness ==
    /\ pc = "built"
    /\ Logged("Disk full; truncating")
    /\ Len(items) = 2
    /\ log[1][2] = items[1].id
    /\ EntryName(dirArea(sectors), dirIndex - 1) = items[2].Name83

(* ---------------- C9 ---------------- *)
(* C9: for every set of input files, the empty set included, the first 16  *)
(* bytes of track 0 sector 1 are {0,0,40,9,2,1,3,2,0x2A,0x52,0,0,0,0,0,0}   *)
(* throughout the build and in the built disk: no block write and no       *)
(* directory write changes them.                                           *)
C9_DiskSpecIntact ==
    ToLit(sectors[0][0], 0, 16) = <<0, 0, 40, 9, 2, 1, 3, 2, 42, 82, 0, 0, 0, 0, 0, 0>>

(* a built disk that received block writes and the directory write *)
C9_Witness == pc = "built" /\ dirIndex > 0 /\ nextBlock > 2

(* ---------------- C10 ---------------- *)
(* the 32-bit little-endian number at offset off of a sector *)
Uint32At(sec, off) ==
    ByteAt(sec, off) + 256 * ByteAt(sec, off + 1)
        + 65536 * ByteAt(sec, off + 2) + 16777216 * ByteAt(sec, off + 3)

(* the total-length field (header offset 11) stored in the first sector of *)
(* allocation block n                                                       *)
StoredTotalLength(secs, n) == Uint32At(secs[1 + (n * 2) \div 9][(n * 2) % 9], 11)

(* C10: for every file stored in the image the total-length field of its   *)
(* +3DOS header equals the number of bytes of the file (header and body)   *)
(* actually stored on the disk, also when the file was cut short. Stated    *)
(* where the builder leaves a file that has extents: pos bytes are stored.  *)
C10_TotalLengthStored ==
    (pc = "file" /\ fi > 1 /\ extentNo > 0)
        => StoredTotalLength(sectors, dir[dirIndex - extentNo][17]) = pos

(* ---------------- C11 ---------------- *)
RECURSIVE ByteSum(_, _, _)
(* the sum of the bytes h[lo] .. h[hi] *)
ByteSum(h, lo, hi) ==
    IF lo > hi THEN 0
    ELSE IF lo = hi THEN h[lo]
    ELSE ByteSum(h, lo, (lo + hi) \div 2) + ByteSum(h, (lo + hi) \div 2 + 1, hi)

(* C11: for every body, type byte and parameters p1, p2 the header made by *)
(* plus3Header has 128 bytes and (sum of bytes 0..126) mod 256 = byte 127.  *)
C11_HeaderChecksum ==
    (pc = "return" /\ call.fn = "plus3Header")
        => /\ Len(ret) = 128
           /\ \A i \in 1..128 : ret[i] \in 0..255
           /\ ByteSum(ret, 1, 127) % 256 = ret[128]

(* a header whose length and parameter fields are all non-zero *)
C11_Witness ==
    /\ pc = "return"
    /\ call.fn = "plus3Header"
    /\ call.a = <<65535, 3, 16384, 32768>>
    /\ ret[128] # 0

(* ---------------- C12 ---------------- *)
(* type, param1 and param2 for a file of kind k whose name ends in "@N" *)
(* (n = 0: no such N)                                                    *)
ExpectedHeader(k, n) ==
    [typ |-> IF k = "BAS" THEN 0 ELSE 3,
     p1 |-> IF n > 0 /\ n < 65536 THEN n ELSE IF k = "SCR" THEN 16384 ELSE 32768,
     p2 |-> 0]

(* C12: type and parameters come from the file name alone: .SCR gives      *)
(* (3, 16384, 0), .BAS gives (0, 32768, 0), .BIN, .CODE and every other     *)
(* extension give (3, 32768, 0), whatever the letter case; a suffix @N of   *)
(* the base name with N a decimal integer in (0, 65536) replaces param1 by  *)
(* N and leaves type and param2, any other N leaves param1 at its default.  *)
C12_HeaderChoice ==
    (pc = "return" /\ call.fn = "chooseHeader")
        => \A sfx \in Suffixes : \A e \in Extensions :
             call.a[1] = Stem \o sfx.text \o e.text
                => ret = ExpectedHeader(e.kind, sfx.n)

(* "game@49152.bas" got type 0 and param1 49152 *)
C12_Witness ==
    /\ pc = "return"
    /\ call.fn = "chooseHeader"
    /\ call.a[1] = Stem \o <<64, 52, 57, 49, 53, 50, 46, 98, 97, 115>>
    /\ ret = [typ |-> 0, p1 |-> 49152, p2 |-> 0]


(* ---------------- the readers on hand-written images ---------------- *)
(* a reader has finished the step after parseDSK *)
ReaderWentOn == pc \in {"extract", "done", "listed", "geometry only"}

(* the entries in the directory sectors of the parsed disk *)
EntriesOnDisk ==
    IF dirSectors(pdisk).err # "" THEN <<>> ELSE parseDir(dirSectors(pdisk).secs)

(* C13: a disk-parameter block at T0,S1 that does not match the signature  *)
(* only raises a warning: once a reader (extractor or inspector) has gone  *)
(* on from the parsed image, the directory entries of track 1 have been    *)
(* read and parsed by it (the extractor holds the files, the inspector the *)
(* rows of its table).                                                     *)
C13_ReadersParseDirectory ==
    (ReaderWentOn /\ ~looksPlus3Spec(specT0S1(pdisk)) /\ EntriesOnDisk # <<>>)
        => (files # <<>> \/ Len(listing) = Len(EntriesOnDisk))

RECURSIVE PayloadSum(_, _, _)
(* the payload bytes of the sectors lo .. hi of a parsed track *)
PayloadSum(trk, lo, hi) ==
    IF lo > hi THEN 0
    ELSE IF lo = hi THEN BLen(trk.Sectors[lo].Data)
    ELSE PayloadSum(trk, lo, (lo + hi) \div 2) + PayloadSum(trk, (lo + hi) \div 2 + 1, hi)

(* the bytes track t (0-based) of the parsed disk d took from the file *)
(* before its padding: the header and the payloads                    *)
TrackBytes(d, t) == 256 + PayloadSum(d.Tracks[t + 1], 1, Len(d.Tracks[t + 1].Sectors))

(* C14: parse rejects an oversized track: when parse has returned a disk,  *)
(* no present track has 256 plus its sector payload lengths above the size *)
(* its size-table entry declares.                                          *)
C14_OversizedRejected ==
    pc = "parsed" =>
        \A t \in 0..(Len(pdisk.Tracks) - 1) :
            pdisk.trackSize[t + 1] # 0 => TrackBytes(pdisk, t) <= pdisk.trackSize[t + 1]

RECURSIVE SizeSum(_, _, _)
SizeSum(ts, lo, hi) ==
    IF lo > hi THEN 0
    ELSE IF lo = hi THEN ts[lo]
    ELSE SizeSum(ts, lo, (lo + hi) \div 2) + SizeSum(ts, (lo + hi) \div 2 + 1, hi)

(* the bytes the headers of the parsed image declare: the disk header and *)
(* the sizes of its size table                                            *)
DeclaredLen(d) == 256 + SizeSum(d.trackSize, 1, Len(d.trackSize))

(* C15: a read underrun at any stage of parse, the padding of the last    *)
(* track included, makes parse fail: parse never returns a disk for an    *)
(* image file shorter than the bytes its headers declare.                 *)
C15_UnderrunFails ==
    (pc = "parsed" /\ \A t \in DOMAIN pdisk.trackSize :
                         pdisk.trackSize[t] = 0 \/ pdisk.trackSize[t] >= TrackBytes(pdisk, t - 1))
        => FileLen(image) >= DeclaredLen(pdisk)

(* C16: whatever the sector-count byte at offset 0x15 of a track header,  *)
(* parse either returns a disk or an error value; it never indexes a      *)
(* sector-info record outside the 256-byte header and never aborts.       *)
C16_NoAbnormalAbort == pc # "parse panic"

(* the signature as the profile gives it, byte k of the block being b[k + 1] *)
SignatureFields(b) ==
    /\ b[1] = 0
    /\ b[2] \in {0, 1}
    /\ b[3] >= 40
    /\ b[4] >= 9
    /\ b[5] = 2
    /\ b[6] = 1
    /\ b[7] = 3
    /\ b[8] = 2
    /\ b[9] = 42
    /\ b[10] = 82

(* C17: the 16 bytes at T0,S1 are recognised as the +3/PCW profile if and  *)
(* only if bytes 0..9 satisfy all ten field conditions of the signature; a *)
(* block that differs in any of these fields is not recognised.            *)
C17_SignatureExact ==
    (pc = "return" /\ call.fn = "looksPlus3Spec") => (ret <=> SignatureFields(call.a[1]))

(* linear sector l, counted from sector 1 of track 1 with 9 per track *)
LinearTrack(l) == 1 + (l \div 9)
LinearSector(l) == (l % 9) + 1

(* the 512 bytes the marked disk holds in linear sector l *)
MarkOf(l) == BodyBytes(LinearTrack(l) * 9 + LinearSector(l) - 1, 0, 512)

(* C18: for every allocation block n in [0, 175) the builder's mapping and *)
(* the extractor's mapping send n to the same two sectors, the linear      *)
(* sectors 2n and 2n + 1 counted from track 1 sector 1 (nothing subtracted *)
(* for the directory blocks), and both lie on tracks 1..39.                *)
C18_BlockMappingAgrees ==
    (pc = "return" /\ call.fn = "blockMap") =>
        LET n == call.a[1]
        IN  /\ ~ret.builder.err
            /\ ret.builder.chs =
                 << [Track |-> LinearTrack(2 * n), Side |-> 0, Sect |-> LinearSector(2 * n)],
                    [Track |-> LinearTrack(2 * n + 1), Side |-> 0,
                     Sect |-> LinearSector(2 * n + 1)] >>
            /\ ret.extractor.err = ""
            /\ ret.extractor.data = Cat(MarkOf(2 * n), MarkOf(2 * n + 1))
            /\ LinearTrack(2 * n) \in 1..39
            /\ LinearTrack(2 * n + 1) \in 1..39

(* the last block, on track 39, and the block that crosses from track 1 *)
(* to track 2, have been mapped by both                                 *)
C18_Witness ==
    /\ pc = "return"
    /\ call.fn = "blockMap"
    /\ call.a[1] \in {4, 174}
    /\ ret.builder.chs[2].Track \in {2, 39}
    /\ ret.builder.chs[2].Track = ret.builder.chs[1].Track + (IF call.a[1] = 4 THEN 1 ELSE 0)
    /\ ret.extractor.data = Cat(MarkOf(2 * call.a[1]), MarkOf(2 * call.a[1] + 1))

(* the sector of the parsed disk d at linear sector l *)
SectorAt(d, l) == sectorByID(d, LinearTrack(l), LinearSector(l))

(* linear sector l of d can be read: its track exists, the sector is on *)
(* it and holds 512 bytes                                               *)
SectorReadable(d, l) ==
    /\ LinearTrack(l) < Len(d.Tracks)
    /\ ~SectorAt(d, l).nil
    /\ BLen(SectorAt(d, l).Data) = 512

BlockReadable(d, b) == SectorReadable(d, 2 * b) /\ SectorReadable(d, 2 * b + 1)

(* the 1024-byte payload of block b *)
BlockPayload(d, b) == Cat(SectorAt(d, 2 * b).Data, SectorAt(d, 2 * b + 1).Data)

(* the non-zero slots of entry e, in slot order *)
UsedSlots(e) == SelectSeq(e.Blocks, LAMBDA b : b # 0)

(* how many of the slots nz can be read before the first that cannot *)
ReadableSlots(d, nz) ==
    IF \A j \in DOMAIN nz : BlockReadable(d, nz[j]) THEN Len(nz)
    ELSE (CHOOSE j \in DOMAIN nz :
            ~BlockReadable(d, nz[j]) /\ \A m \in 1..(j - 1) : BlockReadable(d, nz[m])) - 1

RECURSIVE Payloads(_, _, _, _)
(* the payloads of the slots lo .. hi of nz, one after the other *)
Payloads(d, nz, lo, hi) ==
    IF lo > hi THEN <<>>
    ELSE IF lo = hi THEN BlockPayload(d, nz[lo])
    ELSE Cat(Payloads(d, nz, lo, (lo + hi) \div 2), Payloads(d, nz, (lo + hi) \div 2 + 1, hi))

(* what the claim lets entry e add to its file *)
ExtentContribution(d, e) ==
    LET all == Payloads(d, UsedSlots(e), 1, ReadableSlots(d, UsedSlots(e)))
    IN  Slice(all, 0, Min(e.RC * 128, BLen(all)))

RECURSIVE Contributions(_, _, _, _)
(* the contributions of the extents lo .. hi of the file f, in f's order *)
Contributions(d, f, lo, hi) ==
    IF lo > hi THEN <<>>
    ELSE IF lo = hi THEN ExtentContribution(d, f.Extents[f.Order[lo]])
    ELSE Cat(Contributions(d, f, lo, (lo + hi) \div 2),
             Contributions(d, f, (lo + hi) \div 2 + 1, hi))

(* C19: for each extent the extractor handles, the payloads of its         *)
(* non-zero block slots are appended in slot order (zero slots skipped)    *)
(* and the extent is cut to RC * 128 bytes before it is added to the file; *)
(* a block that is out of range or lacks a sector ends only that extent's  *)
(* block list: the later extents and the later files are still written.    *)
C19_ExtentReassembly ==
    /\ \A i \in DOMAIN outputs :
         ~outputs[i].hadHeader =>
             outputs[i].data = Contributions(pdisk, files[i], 1, Len(files[i].Order))
    /\ (pc = "done" /\ files # <<>>) => Len(outputs) = Len(files)

(* A.BIN, whose first extent names block 2, a block that cannot be read   *)
(* and block 3, has been written as block 2 followed by block 10 of its   *)
(* second extent, and B.BIN after it as block 5                           *)
C19_Witness ==
    /\ pc = "done"
    /\ Len(outputs) = 2
    /\ \E e \in {files[1].Extents[files[1].Order[1]]} :
         /\ Len(UsedSlots(e)) = 3
         /\ ReadableSlots(pdisk, UsedSlots(e)) = 1
    /\ outputs[1].data = Cat(Cat(Rep(4, 512), Rep(5, 512)), Cat(Rep(20, 512), Rep(21, 512)))
    /\ outputs[2].data = Cat(Rep(10, 512), Rep(11, 512))

(* the indices of the directory entries E that carry the key of file f *)
EntriesOf(E, f) == {j \in DOMAIN E : fileKey(E[j]) = <<f.User, f.Name, f.Ext>>}

(* the ways to put the entries M of E in extent-number order *)
ExtentOrders(E, M) ==
    {p \in [1..Cardinality(M) -> M] :
       /\ \A a, b \in 1..Cardinality(M) : a # b => p[a] # p[b]
       /\ \A a, b \in 1..Cardinality(M) : a < b => extentNum(E[p[a]]) <= extentNum(E[p[b]])}

RECURSIVE EntryContributions(_, _, _, _)
(* the contributions of the entries p[lo] .. p[Len(p)] of E, in that order *)
EntryContributions(d, E, p, lo) ==
    IF lo > Len(p) THEN <<>>
    ELSE Cat(ExtentContribution(d, E[p[lo]]), EntryContributions(d, E, p, lo + 1))

(* C20: the file the extractor writes for a key (user, name, extension) is *)
(* the concatenation, in extent-number order, of the contribution of every *)
(* directory entry with that key, each entry contributing its own blocks   *)
(* exactly once, also when two entries carry the same EX and S1 bytes.     *)
C20_EveryEntryOnce ==
    \A i \in DOMAIN outputs :
        ~outputs[i].hadHeader =>
            \E p \in ExtentOrders(EntriesOnDisk, EntriesOf(EntriesOnDisk, files[i])) :
                outputs[i].data = EntryContributions(pdisk, EntriesOnDisk, p, 1)

============================================================================
